---- MODULE Spec2Model ----
(***************************************************************************)
(* lfind: the metadata store (db_manager.DatabaseManager), the index        *)
(* synchronisation pass (index_manager.update_index), the structural        *)
(* query (get_files_by_criteria) and the search pipeline                    *)
(* (search_pipeline.SearchPipeline with llm_service.LLMService), as state   *)
(* machines over a small file system.                                       *)
(*                                                                          *)
(* Text is a sequence of one-character strings, so that os.path.splitext,   *)
(* str.lower, str.rstrip and SQLite's LIKE are computed character by        *)
(* character.  A nullable column holds <<>> for NULL and <<v>> for v; the   *)
(* extension column holds <<>> for NULL and the extension's text otherwise. *)
(***************************************************************************)
EXTENDS Integers, Sequences, FiniteSets, TLC

VARIABLES files, seq, disk, now, pass, ret, search_history, inv, sem, registry,
          walk, manager

vars == <<files, seq, disk, now, pass, ret, search_history, inv, sem, registry,
          walk, manager>>

\* the state of a SearchPipeline, of its multi_search invocation and of a
\* direct search_semantic call, the embedder registry, the last whole run of
\* update_index and the EmbedManager
pipeVars == <<search_history, inv, sem, registry, walk, manager>>

-----------------------------------------------------------------------------
(* Bounds of the model *)

\* largest id AUTOINCREMENT hands out before inserts are cut off
MaxSeq == 3
\* largest value of the CURRENT_TIMESTAMP clock
MaxClock == 1
\* most arguments a query of SpecQuery supplies together
MaxPredicates == 2
\* largest top_k a search passes, besides the default
MaxTopK == 2
\* most lines in a language model's answer
MaxLines == 3

-----------------------------------------------------------------------------
(* Text *)

NULL == <<>>

Some(v) == <<v>>

\* str.lower on one character, for the letters the model's paths use
LowerChar(c) ==
    CASE c = "A" -> "a"
      [] c = "B" -> "b"
      [] c = "P" -> "p"
      [] c = "J" -> "j"
      [] c = "T" -> "t"
      [] OTHER -> c

Lower(s) == [i \in 1..Len(s) |-> LowerChar(s[i])]

\* str.rfind: the last index of character c in s, 0 when absent (Python: -1)
RFind(s, c) ==
    LET hits == {i \in 1..Len(s) : s[i] = c}
    IN  IF hits = {} THEN 0 ELSE CHOOSE i \in hits : \A j \in hits : j <= i

\* os.path.basename
Basename(p) == SubSeq(p, RFind(p, "/") + 1, Len(p))

\* os.path.splitext(p)[1]: from the last dot after the last separator, unless
\* only dots precede it in the file name
SplitextExt(p) ==
    LET sepIndex == RFind(p, "/")
        dotIndex == RFind(p, ".")
    IN  IF dotIndex > sepIndex
           /\ \E k \in (sepIndex + 1)..(dotIndex - 1) : p[k] # "."
        THEN SubSeq(p, dotIndex, Len(p))
        ELSE <<>>

\* str.rstrip('/')
RStripSlash(s) ==
    LET keep == {i \in 1..Len(s) : s[i] # "/"}
    IN  IF keep = {} THEN <<>>
        ELSE SubSeq(s, 1, CHOOSE i \in keep : \A j \in keep : j <= i)

\* lexicographic order on sequences of integers, a proper prefix first: the
\* order of SQLite's BINARY collation on the timestamp texts
RECURSIVE TextLeq(_, _)
TextLeq(a, b) ==
    IF a = <<>> THEN TRUE
    ELSE IF b = <<>> THEN FALSE
    ELSE IF Head(a) # Head(b) THEN Head(a) < Head(b)
    ELSE TextLeq(Tail(a), Tail(b))

-----------------------------------------------------------------------------
(* Timestamps *)

\* datetime.fromtimestamp(st_mtime): a file time in nanoseconds, rounded
\* half-even to the microseconds a datetime holds
FromTimestamp(ns) ==
    LET q == ns \div 1000
        r == ns % 1000
    IN  IF r > 500 \/ (r = 500 /\ q % 2 = 1) THEN q + 1 ELSE q

\* a text format that drops the microseconds
MutAdaptDatetimeSeconds(dt) == <<dt \div 1000000>>

\* sqlite3's default adapter, datetime.isoformat(" "): "S" when the
\* microsecond field is 0 and "S.ffffff" otherwise, as <<S>> or <<S, ffffff>>
AdaptDatetime(dt) ==
    IF dt % 1000000 = 0 THEN <<dt \div 1000000>>
    ELSE <<dt \div 1000000, dt % 1000000>>

\* datetime.fromisoformat on a stored text
FromIsoformat(t) ==
    IF Len(t) = 1 THEN t[1] * 1000000 ELSE t[1] * 1000000 + t[2]

-----------------------------------------------------------------------------
(* The file system *)

PA == <<"/", "a", "/", "x", ".", "P", "y">>
PB == <<"/", "a", "/", "y", ".", "j", "s">>
PC == <<"/", "A", "/", "z", ".", "t", "x", "t">>
PD == <<"/", "a", "b", "/", "n">>

\* every path the model's file system can hold
Paths == {PA, PB, PC, PD}

\* the start_path of update_index, and the paths os.walk can reach from it
StartPath == <<"/", "a">>

UnderStartPath(p) ==
    /\ Len(p) > Len(StartPath) + 1
    /\ SubSeq(p, 1, Len(StartPath) + 1) = StartPath \o <<"/">>

\* os.stat results: S1 and S2 differ by less than a microsecond in st_mtime,
\* S1 and S3 in st_size alone, S1 and S4 in st_mtime alone
S1 == [st_size |-> 10, st_mtime |-> 1000000000, st_ctime |-> 1000000000]
S2 == [st_size |-> 10, st_mtime |-> 1000000400, st_ctime |-> 1000000400]
S3 == [st_size |-> 20, st_mtime |-> 1000000000, st_ctime |-> 1000000000]
S4 == [st_size |-> 10, st_mtime |-> 1000002000, st_ctime |-> 1000002000]

Stats == {S1, S2, S3, S4}

\* os.stat(path): NULL stands for OSError / FileNotFoundError
OsStat(dsk, p) == dsk[p]

\* the file_data dictionary a caller hands to touch_file
FileData(p, type) == [name |-> Basename(p), absolute_path |-> p, type |-> type]

-----------------------------------------------------------------------------
(* The files table *)

\* SELECT * FROM files WHERE absolute_path = ?
SelectByPath(fs, p) == {r \in fs : r.absolute_path = p}

\* the paths that have a record
StoredPaths(fs) == {r.absolute_path : r \in fs}

\* the UPDATE of reset_seen_flags lost: every flag keeps its value
MutResetSeenKeepsFlags(fs) == fs

\* UPDATE files SET seen = 0
ExecResetSeen(fs) == {[r EXCEPT !.seen = 0] : r \in fs}

\* the DELETE without its WHERE clause
MutUnseenRowsAll(fs) == fs

\* DELETE FROM files WHERE seen = 0: the rows to delete (cursor.rowcount counts them)
UnseenRows(fs) == {r \in fs : r.seen = 0}

\* the DELETE is limited to the rows under start_path
MutExecDeleteUnseenUnderStart(fs) ==
    fs \ {r \in UnseenRows(fs) : UnderStartPath(r.absolute_path)}

ExecDeleteUnseen(fs) == fs \ UnseenRows(fs)

\* the extension column touch_file computes from file_data['name']
ExtensionOf(name) == Lower(SplitextExt(name))

\* the INSERT into a table whose id is not AUTOINCREMENT: the row gets the
\* largest id of the table plus one
MutExecInsertMaxRowid(fs, sq, clk, file_data, size, created_at, modified_at) ==
    LET top == IF fs = {} THEN 0
               ELSE (CHOOSE r \in fs : \A q \in fs : q.id <= r.id).id
    IN  fs \cup {[id |-> top + 1,
                  name |-> file_data.name,
                  absolute_path |-> file_data.absolute_path,
                  type |-> file_data.type,
                  extension |-> ExtensionOf(file_data.name),
                  size |-> size,
                  created_at |-> AdaptDatetime(created_at),
                  modified_at |-> AdaptDatetime(modified_at),
                  last_indexed_at |-> clk,
                  embedding_id |-> NULL,
                  embedding_type |-> NULL,
                  seen |-> 1]}

\* INSERT INTO files (...) VALUES (..., CURRENT_TIMESTAMP, 1); the id is
\* AUTOINCREMENT's, one past the largest id the table ever held
ExecInsert(fs, sq, clk, file_data, size, created_at, modified_at) ==
    fs \cup {[id |-> sq + 1,
              name |-> file_data.name,
              absolute_path |-> file_data.absolute_path,
              type |-> file_data.type,
              extension |-> ExtensionOf(file_data.name),
              size |-> size,
              created_at |-> AdaptDatetime(created_at),
              modified_at |-> AdaptDatetime(modified_at),
              last_indexed_at |-> clk,
              embedding_id |-> NULL,
              embedding_type |-> NULL,
              seen |-> 1]}

\* the UPDATE also forgets the row's embedding
MutExecUpdateClearsEmbedding(fs, clk, file_data, size, created_at, modified_at) ==
    {IF r.absolute_path = file_data.absolute_path
     THEN [r EXCEPT !.name = file_data.name,
                    !.type = file_data.type,
                    !.extension = ExtensionOf(file_data.name),
                    !.size = size,
                    !.created_at = AdaptDatetime(created_at),
                    !.modified_at = AdaptDatetime(modified_at),
                    !.last_indexed_at = clk,
                    !.embedding_id = NULL,
                    !.embedding_type = NULL,
                    !.seen = 1]
     ELSE r : r \in fs}

\* UPDATE files SET name, type, extension, size, created_at, modified_at,
\* last_indexed_at = CURRENT_TIMESTAMP, seen = 1 WHERE absolute_path = ?
ExecUpdate(fs, clk, file_data, size, created_at, modified_at) ==
    {IF r.absolute_path = file_data.absolute_path
     THEN [r EXCEPT !.name = file_data.name,
                    !.type = file_data.type,
                    !.extension = ExtensionOf(file_data.name),
                    !.size = size,
                    !.created_at = AdaptDatetime(created_at),
                    !.modified_at = AdaptDatetime(modified_at),
                    !.last_indexed_at = clk,
                    !.seen = 1]
     ELSE r : r \in fs}

\* the UPDATE without its WHERE clause: every row is marked seen
MutMarkSeenAll(fs, p) == {[r EXCEPT !.seen = 1] : r \in fs}

\* UPDATE files SET seen = 1 WHERE absolute_path = ?
ExecMarkSeen(fs, p) ==
    {IF r.absolute_path = p THEN [r EXCEPT !.seen = 1] ELSE r : r \in fs}

\* the comparison with the modification time left out
MutRequiresUpdateSizeOnly(row, size, modified_at) == size # row.size

\* touch_file's comparison of the stored row with the fresh stat; a row this
\* table holds never has a NULL size or modified_at
RequiresUpdate(row, size, modified_at) ==
    modified_at # FromIsoformat(row.modified_at) \/ size # row.size

\* DatabaseManager.touch_file.  fault = TRUE: a statement raises sqlite3.Error,
\* which the method catches, printing and returning False with nothing
\* written.  The value is the table, the id sequence, the returned bool and
\* the branch taken.
TouchFile(fs, sq, clk, dsk, file_data, fault) ==
    LET p     == file_data.absolute_path
        stats == OsStat(dsk, p)
        rows  == SelectByPath(fs, p)
    IN  IF stats = NULL
        THEN [files |-> fs, seq |-> sq, result |-> FALSE, branch |-> "skipped"]
        ELSE IF fault
        THEN [files |-> fs, seq |-> sq, result |-> FALSE, branch |-> "store_error"]
        ELSE LET size        == stats[1].st_size
                 created_at  == FromTimestamp(stats[1].st_ctime)
                 modified_at == FromTimestamp(stats[1].st_mtime)
             IN  IF rows = {}
                 THEN [files |-> ExecInsert(fs, sq, clk, file_data, size,
                                            created_at, modified_at),
                       seq |-> sq + 1, result |-> TRUE, branch |-> "inserted"]
                 ELSE LET row == CHOOSE r \in rows : TRUE
                      IN  IF RequiresUpdate(row, size, modified_at)
                          THEN [files |-> ExecUpdate(fs, clk, file_data, size,
                                                     created_at, modified_at),
                                seq |-> sq, result |-> TRUE, branch |-> "updated"]
                          ELSE [files |-> ExecMarkSeen(fs, p),
                                seq |-> sq, result |-> FALSE, branch |-> "seen"]

\* the reset empties the table instead of clearing the flags
MutResetSeenFlagsDeletes(fs, fault) ==
    [files |-> IF fault THEN fs ELSE {}, raised |-> fault]

\* DatabaseManager.reset_seen_flags; with fault it re-raises and writes nothing
ResetSeenFlags(fs, fault) ==
    IF fault THEN [files |-> fs, raised |-> TRUE]
    ELSE [files |-> ExecResetSeen(fs), raised |-> FALSE]

\* DatabaseManager.delete_missing_files; with fault it prints and returns 0
DeleteMissingFiles(fs, fault) ==
    IF fault THEN [files |-> fs, result |-> 0]
    ELSE [files |-> ExecDeleteUnseen(fs), result |-> Cardinality(UnseenRows(fs))]

\* the UPDATE sets embedding_id and leaves embedding_type as it is
MutUpdateEmbeddingIdOnly(fs, file_id, embedding_id, embedding_type) ==
    [files |-> {IF r.id = file_id
                THEN [r EXCEPT !.embedding_id = Some(embedding_id)]
                ELSE r : r \in fs},
     result |-> \E r \in fs : r.id = file_id]

\* DatabaseManager.update_embedding_id: UPDATE files SET embedding_id = ?,
\* embedding_type = ? WHERE id = ?; True when a row was updated
UpdateEmbeddingId(fs, file_id, embedding_id, embedding_type) ==
    [files |-> {IF r.id = file_id
                THEN [r EXCEPT !.embedding_id = Some(embedding_id),
                               !.embedding_type = Some(embedding_type)]
                ELSE r : r \in fs},
     result |-> \E r \in fs : r.id = file_id]

-----------------------------------------------------------------------------
(* update_index: one synchronisation pass per call *)

\* the processes that may run update_index against the one database file
PassIds == {1, 2}

\* the files os.walk(start_path) can yield, in the order it yields them
WalkOrder == <<PA, PB>>

WalkPaths == {WalkOrder[k] : k \in 1..Len(WalkOrder)}

\* a pass that has not called update_index yet
IdlePass ==
    [pc |-> "idle", idx |-> 1, file_data |-> NULL, log |-> <<>>,
     before |-> {}, called |-> {}, touched |-> {}, store_error |-> FALSE]

\* the outcome of the last store call
NoRet ==
    [op |-> "none", pass |-> 0, path |-> NULL, stat |-> NULL,
     old |-> {}, result |-> FALSE, count |-> 0, branch |-> "none",
     removed |-> {}, criteria |-> NULL, rows |-> {}, again |-> FALSE]

\* the record of a store call made now: what was called, by which pass, for
\* which path, the stat the call saw, the rows it found, the bool or the count
\* it returned, what it removed, and whether it repeats the call before it (a
\* touch_file of the same path that saw the same stat)
Called(op, i, path, stat, old, result, count, branch, removed) ==
    [op |-> op, pass |-> i, path |-> path, stat |-> stat,
     old |-> old, result |-> result, count |-> count, branch |-> branch,
     removed |-> removed, criteria |-> NULL, rows |-> {},
     again |-> (op = "touch_file" /\ ret.op = op /\ ret.path = path /\ ret.stat = stat)]

\* delete_missing_files moved into the loop: it may run before the walk ends
MutWalkDoneEarly(ps) == TRUE

\* update_index has reached the end of the os.walk loop
WalkDone(ps) == ps.idx > Len(WalkOrder)

\* db = DatabaseManager(db_path); db.reset_seen_flags().  A sqlite3.Error is
\* re-raised by reset_seen_flags and leaves update_index through its finally.
Begin(i, fault) ==
    /\ pass[i].pc = "idle"
    /\ LET r == ResetSeenFlags(files, fault)
       IN  /\ files' = r.files
           /\ pass' = [pass EXCEPT ![i] =
                  [@ EXCEPT !.pc = IF r.raised THEN "raised" ELSE "walk",
                            !.idx = 1,
                            !.before = StoredPaths(files),
                            !.log = Append(@, "reset_seen_flags")]]
           /\ ret' = Called("reset_seen_flags", i, NULL, NULL, {}, FALSE, 0,
                            IF r.raised THEN "store_error" ELSE "ok", {})
    /\ UNCHANGED <<seq, disk, now>>
    /\ UNCHANGED pipeVars

\* for root, dirs, files in os.walk(start_path): for file in files: the next
\* file is yielded only if the directory listing holds it
List(i) ==
    /\ pass[i].pc = "walk"
    /\ ~WalkDone(pass[i])
    /\ LET p == WalkOrder[pass[i].idx]
       IN  pass' = [pass EXCEPT ![i] =
               IF disk[p] = NULL
               THEN [@ EXCEPT !.idx = @ + 1]
               ELSE [@ EXCEPT !.pc = "stat", !.file_data = Some(FileData(p, "file"))]]
    /\ UNCHANGED <<files, seq, disk, now, ret>>
    /\ UNCHANGED pipeVars

\* stats = os.stat(file_path); an exception is printed and the file passed over
StatFile(i) ==
    /\ pass[i].pc = "stat"
    /\ LET fd == pass[i].file_data[1]
       IN  pass' = [pass EXCEPT ![i] =
               IF OsStat(disk, fd.absolute_path) = NULL
               THEN [@ EXCEPT !.pc = "walk", !.idx = @ + 1, !.file_data = NULL]
               ELSE [@ EXCEPT !.pc = "touch"]]
    /\ UNCHANGED <<files, seq, disk, now, ret>>
    /\ UNCHANGED pipeVars

\* db.touch_file(file_data); its return value is dropped
Touch(i, fault) ==
    /\ pass[i].pc = "touch"
    /\ LET fd == pass[i].file_data[1]
           p  == fd.absolute_path
           t  == TouchFile(files, seq, now, disk, fd, fault)
       IN  /\ t.seq <= MaxSeq
           /\ files' = t.files
           /\ seq' = t.seq
           /\ pass' = [pass EXCEPT ![i] =
                  [@ EXCEPT !.pc = "walk", !.idx = @ + 1, !.file_data = NULL,
                            !.log = Append(@, "touch_file"),
                            !.called = @ \cup {p},
                            !.touched = IF t.branch \in {"inserted", "updated", "seen"}
                                        THEN @ \cup {p} ELSE @,
                            !.store_error = @ \/ t.branch = "store_error"]]
           /\ ret' = Called("touch_file", i, p, OsStat(disk, p),
                            SelectByPath(files, p), t.result, 0, t.branch, {})
    /\ UNCHANGED <<disk, now>>
    /\ UNCHANGED pipeVars

\* deleted_count = db.delete_missing_files(); return True
Sweep(i, fault) ==
    /\ pass[i].pc = "walk"
    /\ WalkDone(pass[i])
    /\ LET d == DeleteMissingFiles(files, fault)
       IN  /\ files' = d.files
           /\ pass' = [pass EXCEPT ![i] =
                  [@ EXCEPT !.pc = "done", !.log = Append(@, "delete_missing_files")]]
           /\ ret' = Called("delete_missing_files", i, NULL, NULL, {}, FALSE, d.result,
                            IF fault THEN "store_error" ELSE "ok", files \ d.files)
    /\ UNCHANGED <<seq, disk, now>>
    /\ UNCHANGED pipeVars

\* the process calls update_index again
Restart(i) ==
    /\ pass[i].pc \in {"done", "raised"}
    /\ pass' = [pass EXCEPT ![i] = IdlePass]
    /\ UNCHANGED <<files, seq, disk, now, ret>>
    /\ UNCHANGED pipeVars

-----------------------------------------------------------------------------
(* The environment *)

\* a file is written: created, or its size or times change
WriteFile(p, st) ==
    /\ disk[p] # Some(st)
    /\ disk' = [disk EXCEPT ![p] = Some(st)]
    /\ UNCHANGED <<files, seq, now, pass, ret>>
    /\ UNCHANGED pipeVars

\* a file is deleted
RemoveFile(p) ==
    /\ disk[p] # NULL
    /\ disk' = [disk EXCEPT ![p] = NULL]
    /\ UNCHANGED <<files, seq, now, pass, ret>>
    /\ UNCHANGED pipeVars

\* CURRENT_TIMESTAMP moves on
Tick ==
    /\ now < MaxClock
    /\ now' = now + 1
    /\ UNCHANGED <<files, seq, disk, pass, ret>>
    /\ UNCHANGED pipeVars

-----------------------------------------------------------------------------
(* The state of one multi_search invocation *)

\* no multi_search has been called on the pipeline.  pc is the position of
\* the invocation; args its arguments; base_results the structural filter's
\* output; semantic_results, file_names (what search_files was handed),
\* matching_names (what it answered) and llm_results the stages' values;
\* merged the list multi_search holds when it records its history entry;
\* result what it returns; calls the calls that reached the embedding and
\* language-model collaborators, in order; failed the collaborator and store
\* calls that raised; error the exception that left multi_search
IdleInv ==
    [pc |-> "idle", args |-> NULL, base_results |-> <<>>,
     semantic_results |-> <<>>, file_names |-> <<>>, matching_names |-> <<>>,
     llm_results |-> <<>>,
     merged |-> <<>>, result |-> <<>>, calls |-> <<>>, failed |-> {},
     error |-> "none"]

\* no search_semantic has been called directly on the pipeline.  args are
\* the call's arguments, emb what the embedding collaborator did in it;
\* results, calls, failed and error as in IdleInv
IdleSem ==
    [pc |-> "idle", args |-> NULL, emb |-> NULL, results |-> <<>>,
     calls |-> <<>>, failed |-> {}, error |-> "none"]

\* EmbedderRegistry.__init__: _embedders = {} and _extension_map = {}.  A
\* dict keeps its keys in insertion order: embedders is the sequence of the
\* keys' names with their embedders, extension_map the set of the
\* (extension, name) items; log the register calls so far, in their order;
\* last the last call and what it gave
EmptyRegistry ==
    [embedders |-> <<>>, extension_map |-> {}, log |-> <<>>, last |-> NULL]

\* update_index has not been run as a whole.  start_path and
\* ignore_patterns are the arguments of the last run
IdleWalk == [ran |-> FALSE, start_path |-> <<>>, ignore_patterns |-> {}]

\* the index of no manager
NoIndex == [d |-> 0, kind |-> "none", xb |-> <<>>]

\* no EmbedManager has been constructed.  dim and metric are self.dim and
\* self.metric; index is self.index: d its dimension, kind its class, xb its
\* vectors, the vector with handle h at position h + 1; saved is the file
\* save_index wrote; op, args, raised, error and result describe the last
\* call and before is the number of vectors the index held when it began
NoManager ==
    [built |-> FALSE, dim |-> 0, metric |-> <<>>, index |-> NoIndex,
     saved |-> NULL, op |-> "none",
     args |-> [dim |-> 0, metric |-> <<>>, embeddings |-> <<>>, k |-> 0],
     raised |-> FALSE, error |-> "none", before |-> 0, result |-> <<>>]

-----------------------------------------------------------------------------
(* Initial states *)

\* the row touch_file inserts for path p when it stats st, with the seen flag
\* a later reset_seen_flags may have cleared
StoredRow(p, id, st, sn) ==
    [id |-> id,
     name |-> Basename(p),
     absolute_path |-> p,
     type |-> "file",
     extension |-> ExtensionOf(Basename(p)),
     size |-> st.st_size,
     created_at |-> AdaptDatetime(FromTimestamp(st.st_ctime)),
     modified_at |-> AdaptDatetime(FromTimestamp(st.st_mtime)),
     last_indexed_at |-> 0,
     embedding_id |-> NULL,
     embedding_type |-> NULL,
     seen |-> sn]

\* stores earlier passes may have left: PA indexed or not, PC (a file outside
\* the walked tree) indexed or not, each with either seen flag
InitStores ==
    {{}} \cup
    {{StoredRow(PA, 1, S1, sn)} : sn \in {0, 1}} \cup
    {{StoredRow(PC, 1, S1, sn)} : sn \in {0, 1}} \cup
    {{StoredRow(PA, 1, S1, sa), StoredRow(PC, 2, S1, sc)} : sa \in {0, 1}, sc \in {0, 1}}

InitDisk == [p \in Paths |-> IF p = PD THEN NULL ELSE Some(S1)]

Init ==
    /\ files \in InitStores
    /\ seq = Cardinality(files)
    /\ disk = InitDisk
    /\ now = 0
    /\ pass = [i \in PassIds |-> IdlePass]
    /\ ret = NoRet
    /\ search_history = <<>>
    /\ inv = IdleInv
    /\ sem = IdleSem
    /\ registry = EmptyRegistry
    /\ walk = IdleWalk
    /\ manager = NoManager

-----------------------------------------------------------------------------
(* Spec: process 1 runs update_index, again and again, while files change *)

PassStats == {S1, S3}

Next ==
    \/ Begin(1, FALSE)
    \/ List(1)
    \/ StatFile(1)
    \/ Touch(1, FALSE)
    \/ Sweep(1, FALSE)
    \/ Restart(1)
    \/ \E p \in WalkPaths, st \in PassStats : WriteFile(p, st)
    \/ \E p \in WalkPaths : RemoveFile(p)

Spec == Init /\ [][Next]_vars

-----------------------------------------------------------------------------
(* SpecConc: two processes run update_index against the same database file; *)
(* each store call is one SQLite transaction, and nothing else orders them  *)

NextConc ==
    \E i \in PassIds :
        \/ Begin(i, FALSE)
        \/ List(i)
        \/ StatFile(i)
        \/ Touch(i, FALSE)
        \/ Sweep(i, FALSE)
        \/ Restart(i)

SpecConc == Init /\ [][NextConc]_vars

-----------------------------------------------------------------------------
(* SpecFault: one process runs update_index and any store call may fail     *)
(* with sqlite3.Error                                                       *)

NextFault ==
    \E fault \in BOOLEAN :
        \/ Begin(1, fault)
        \/ List(1)
        \/ StatFile(1)
        \/ Touch(1, fault)
        \/ Sweep(1, fault)
        \/ Restart(1)

SpecFault == Init /\ [][NextFault]_vars

-----------------------------------------------------------------------------
(* SpecStore: a client calls the DatabaseManager methods directly, in any    *)
(* order, as the tests and the index command do, while PA changes on disk    *)

\* the embedding handles and types update_embedding_id is called with
EmbeddingIds == {7}

EmbeddingTypes == {"title"}

\* db.reset_seen_flags()
CallResetSeenFlags ==
    /\ LET r == ResetSeenFlags(files, FALSE)
       IN  /\ files' = r.files
           /\ ret' = Called("reset_seen_flags", 0, NULL, NULL, {}, FALSE, 0, "ok", {})
    /\ UNCHANGED <<seq, disk, now, pass>>
    /\ UNCHANGED pipeVars

\* db.touch_file(file_data)
CallTouchFile(p) ==
    /\ LET t == TouchFile(files, seq, now, disk, FileData(p, "file"), FALSE)
       IN  /\ t.seq <= MaxSeq
           /\ files' = t.files
           /\ seq' = t.seq
           /\ ret' = Called("touch_file", 0, p, OsStat(disk, p),
                            SelectByPath(files, p), t.result, 0, t.branch, {})
    /\ UNCHANGED <<disk, now, pass>>
    /\ UNCHANGED pipeVars

\* db.delete_missing_files()
CallDeleteMissingFiles ==
    /\ LET d == DeleteMissingFiles(files, FALSE)
       IN  /\ files' = d.files
           /\ ret' = Called("delete_missing_files", 0, NULL, NULL, {}, FALSE, d.result,
                            "ok", files \ d.files)
    /\ UNCHANGED <<seq, disk, now, pass>>
    /\ UNCHANGED pipeVars

\* db.update_embedding_id(file_id, embedding_id, embedding_type)
CallUpdateEmbeddingId(file_id, embedding_id, embedding_type) ==
    /\ LET u == UpdateEmbeddingId(files, file_id, embedding_id, embedding_type)
       IN  /\ files' = u.files
           /\ ret' = Called("update_embedding_id", 0, NULL, NULL,
                            {r \in files : r.id = file_id}, u.result, 0, "ok", {})
    /\ UNCHANGED <<seq, disk, now, pass>>
    /\ UNCHANGED pipeVars

NextStore ==
    \/ CallResetSeenFlags
    \/ CallTouchFile(PA)
    \/ CallDeleteMissingFiles
    \/ \E id \in 1..MaxSeq, e \in EmbeddingIds, t \in EmbeddingTypes :
          CallUpdateEmbeddingId(id, e, t)
    \/ \E st \in Stats : WriteFile(PA, st)
    \/ RemoveFile(PA)
    \/ Tick

SpecStore == Init /\ [][NextStore]_vars

-----------------------------------------------------------------------------
(* get_files_by_criteria *)

\* SQLite's LIKE without ESCAPE: % matches any run of characters, _ any one
\* character, and letters match without regard to case
RECURSIVE Like(_, _)
Like(text, pattern) ==
    IF pattern = <<>> THEN text = <<>>
    ELSE IF Head(pattern) = "%"
         THEN Like(text, Tail(pattern))
              \/ (text # <<>> /\ Like(Tail(text), pattern))
    ELSE IF text = <<>> THEN FALSE
    ELSE IF Head(pattern) = "_" THEN Like(Tail(text), Tail(pattern))
    ELSE LowerChar(Head(pattern)) = LowerChar(Head(text))
         /\ Like(Tail(text), Tail(pattern))

\* the parameter bound for directory: directory.rstrip('/') + '/%'
DirectoryPattern(directory) == RStripSlash(directory) \o <<"/", "%">>

\* extension IN (?, ...): a NULL extension is in no list
ExtensionIn(extension, extensions) ==
    extension # NULL /\ \E k \in 1..Len(extensions) : extensions[k] = extension

\* DatabaseManager.get_files_by_criteria: the WHERE clause the method builds.
\* An argument that is None, or empty where the code tests its truth, adds
\* no condition; the size bounds are tested with "is not None".  A datetime
\* bound is adapted to text and compared with the stored text.  With fault
\* the method prints the sqlite3.Error and returns an empty list.
GetFilesByCriteria(fs, c, fault) ==
    IF fault THEN {}
    ELSE {r \in fs :
            /\ c.directory # NULL =>
                  Like(r.absolute_path, DirectoryPattern(c.directory))
            /\ c.extensions # NULL => ExtensionIn(r.extension, c.extensions)
            /\ c.file_type # NULL => r.type = c.file_type[1]
            /\ c.min_size # NULL => r.size >= c.min_size[1]
            /\ c.max_size # NULL => r.size <= c.max_size[1]
            /\ c.modified_after # NULL =>
                  TextLeq(AdaptDatetime(c.modified_after[1]), r.modified_at)
            /\ c.modified_before # NULL =>
                  TextLeq(r.modified_at, AdaptDatetime(c.modified_before[1]))}

-----------------------------------------------------------------------------
(* SpecQuery: a client indexes the files of a fixed file system one by one   *)
(* and queries the store in between                                          *)

DotPy == <<".", "p", "y">>
DotJs == <<".", "j", "s">>
DotTxt == <<".", "t", "x", "t">>

DirA == <<"/", "a">>
DirAWild == <<"/", "a", "_">>

\* how many arguments of a query are supplied
Supplied(c) ==
    Cardinality({f \in DOMAIN c : c[f] # NULL})

AllCriteria ==
    [directory : {NULL, DirA, DirAWild},
     extensions : {NULL, <<DotPy, DotJs>>, <<DotTxt>>},
     file_type : {NULL, Some("file")},
     min_size : {NULL, Some(20)},
     max_size : {NULL, Some(10)},
     modified_after : {NULL, Some(1000002)},
     modified_before : {NULL, Some(1000000)}]

\* the arguments the client queries with
Criteria == {c \in AllCriteria : Supplied(c) <= MaxPredicates}

QueryDisk ==
    [p \in Paths |->
        IF p = PA THEN Some(S1)
        ELSE IF p = PB THEN Some(S3)
        ELSE IF p = PC THEN Some(S4)
        ELSE Some(S2)]

InitQuery ==
    /\ files = {}
    /\ seq = 0
    /\ disk = QueryDisk
    /\ now = 0
    /\ pass = [i \in PassIds |-> IdlePass]
    /\ ret = NoRet
    /\ search_history = <<>>
    /\ inv = IdleInv
    /\ sem = IdleSem
    /\ registry = EmptyRegistry
    /\ walk = IdleWalk
    /\ manager = NoManager

\* db.get_files_by_criteria(...)
CallGetFilesByCriteria(c) ==
    /\ ret' = [Called("get_files_by_criteria", 0, NULL, NULL, {}, FALSE, 0, "ok", {})
                  EXCEPT !.criteria = Some(c),
                         !.rows = GetFilesByCriteria(files, c, FALSE)]
    /\ UNCHANGED <<files, seq, disk, now, pass>>
    /\ UNCHANGED pipeVars

NextQuery ==
    \/ \E p \in Paths : CallTouchFile(p)
    \/ \E c \in Criteria : CallGetFilesByCriteria(c)

SpecQuery == InitQuery /\ [][NextQuery]_vars

-----------------------------------------------------------------------------
(* Sequence helpers for the claims *)

Range(sq) == {sq[k] : k \in 1..Len(sq)}

Count(sq, x) == Cardinality({k \in 1..Len(sq) : sq[k] = x})

\* between its reset_seen_flags and its delete_missing_files
Active(ps) == ps.pc \in {"walk", "stat", "touch"}

-----------------------------------------------------------------------------
(* SearchPipeline: the stages *)

\* top_k: int = 10
DefaultTopK == 10

\* search_semantic builds a temporary index when it is given fewer
\* candidates than this
ScopedThreshold == 1000

\* search_similar is asked for top_k * 10 neighbours
Oversample == 10

Min(a, b) == IF a <= b THEN a ELSE b

\* Python's s[:n], for n >= 0
Take(s, n) == SubSeq(s, 1, Min(n, Len(s)))

\* the rows of a SELECT without ORDER BY that constrains type: SQLite walks
\* idx_files_type, within one type in rowid (id) order
RECURSIVE SortById(_)
SortById(rows) ==
    IF rows = {} THEN <<>>
    ELSE LET r == CHOOSE r \in rows : \A q \in rows : r.id <= q.id
         IN  <<r>> \o SortById(rows \ {r})

\* self.db.get_files_by_criteria(directory=directory, extensions=extensions,
\* file_type="file"), the query every stage of the pipeline makes
QueryFiles(fs, directory, extensions, fault) ==
    SortById(GetFilesByCriteria(fs,
        [directory |-> directory, extensions |-> extensions,
         file_type |-> Some("file"), min_size |-> NULL, max_size |-> NULL,
         modified_after |-> NULL, modified_before |-> NULL], fault))

\* add_to_history; the query text and the params, which no branch reads, are
\* left out of the entry
AddToHistory(history, results, search_type) ==
    Append(history, [search_type |-> search_type, results |-> results,
                     result_count |-> Len(results)])

\* [r['id'] for r in records]
Ids(records) == {records[k].id : k \in 1..Len(records)}

\* for record in records: if record.get('id') == file_id: ... break
RecordById(records, file_id) ==
    records[CHOOSE k \in 1..Len(records) :
                /\ records[k].id = file_id
                /\ \A j \in 1..(k - 1) : records[j].id # file_id]

\* db.get_file_by_id(idx): the row, or None
GetFileById(fs, file_id) ==
    IF \E r \in fs : r.id = file_id
    THEN Some(CHOOSE r \in fs : r.id = file_id)
    ELSE NULL

\* the rows of the first top_k hits, candidates or not
MutPostFilterUnfiltered(fs, candidate_ids, hits, results, top_k) ==
    LET known == SelectSeq(hits, LAMBDA h : \E r \in fs : r.id = h)
    IN  Take([k \in 1..Len(known) |-> CHOOSE r \in fs : r.id = known[k]], top_k)

\* the loop over similarity_results of the post-filter strategy: a hit whose
\* number is the id of a candidate is appended, and the loop breaks once
\* results holds top_k records
RECURSIVE PostFilterLoop(_, _, _, _, _)
PostFilterLoop(fs, candidate_ids, hits, results, top_k) ==
    IF hits = <<>> THEN results
    ELSE LET file_record == GetFileById(fs, Head(hits))
             r2 == IF file_record # NULL /\ file_record[1].id \in candidate_ids
                   THEN Append(results, file_record[1])
                   ELSE results
         IN  IF Len(r2) >= top_k THEN r2
             ELSE PostFilterLoop(fs, candidate_ids, Tail(hits), r2, top_k)

\* the temporary index is used up to the threshold inclusive
MutScopedAtThreshold(previous_results) ==
    previous_results # <<>> /\ Len(previous_results) <= ScopedThreshold

\* if previous_results and len(previous_results) < 1000
UsesScopedIndex(previous_results) ==
    previous_results # <<>> /\ Len(previous_results) < ScopedThreshold

\* SearchPipeline.search_semantic.  emb is what the embedding collaborator
\* does in this call: query_raises, embed_query raises; rank, the ids of the
\* records embed_file returns an embedding for, in the order the temporary
\* index ranks them; k0_raises, the index refuses a search for k = 0
\* neighbours (newer FAISS asserts k > 0, older returns no neighbour); hits,
\* the handles the full index returns to search_similar.
\* The result: raised, an exception leaves the method, and error names it;
\* results; history, the search history afterwards; calls and failed as in
\* IdleInv.
SearchSemantic(fs, history, top_k, directory, extensions, previous_results, emb) ==
    LET NoResult(calls, failed) ==
            [raised |-> FALSE, results |-> <<>>, history |-> history,
             calls |-> calls, failed |-> failed, error |-> "none"]
        Raised(calls, failed, error) ==
            [raised |-> TRUE, results |-> <<>>, history |-> history,
             calls |-> calls, failed |-> failed, error |-> error]
        Done(results, calls, failed) ==
            [raised |-> FALSE, results |-> results,
             history |-> AddToHistory(history, results, "semantic"),
             calls |-> calls, failed |-> failed, error |-> "none"]
    IN
    IF emb.query_raises THEN Raised(<<"embed_query">>, {"embed_query"}, "EmbeddingError")
    ELSE IF UsesScopedIndex(previous_results)
    THEN \* a temporary index over the candidates' embeddings
         LET embedded == SelectSeq(previous_results,
                                   LAMBDA r : r.embedding_id # NULL)
             matched == SelectSeq(embedded, LAMBDA r : r.id \in Range(emb.rank))
             calls == <<"embed_query">> \o [k \in 1..Len(embedded) |-> "embed_file"]
             failed == IF Len(matched) < Len(embedded) THEN {"embed_file"} ELSE {}
             k == Min(top_k, Len(matched))
             ranking == SelectSeq(emb.rank, LAMBDA id : id \in Ids(matched))
         IN  IF matched = <<>> THEN NoResult(calls, failed)
             ELSE IF k = 0 /\ emb.k0_raises
             THEN Raised(calls, failed, "AssertionError")
             ELSE Done([i \in 1..k |-> RecordById(previous_results, ranking[i])],
                       calls, failed)
    ELSE \* the full index, filtered to the candidates
         LET candidate_results ==
                 IF previous_results = <<>>
                 THEN QueryFiles(fs, directory, extensions, FALSE)
                 ELSE previous_results
             calls == <<"embed_query", "search_similar">>
         IN  IF top_k * Oversample = 0 /\ emb.k0_raises
             THEN Raised(calls, {}, "AssertionError")
             ELSE Done(PostFilterLoop(fs, Ids(candidate_results),
                                      Take(emb.hits, top_k * Oversample), <<>>,
                                      top_k),
                       calls, {})

\* str.strip, for the blank the model's lines use
RECURSIVE LStrip(_)
LStrip(s) == IF s # <<>> /\ Head(s) = " " THEN LStrip(Tail(s)) ELSE s

RECURSIVE RStrip(_)
RStrip(s) ==
    IF s # <<>> /\ s[Len(s)] = " " THEN RStrip(SubSeq(s, 1, Len(s) - 1)) ELSE s

Strip(s) == LStrip(RStrip(s))

\* complete without its try/except: the API error reaches the caller
MutCompleteRaises(api) == [raised |-> api.raises, lines |-> api.lines]

\* LLMClient.complete followed by response.split('\n').  api is what the
\* chat-completions call does: raises, or answers with the lines api.lines.
\* The except branch prints the error and returns "", which splits into one
\* empty line.
Complete(api) ==
    IF api.raises
    THEN [raised |-> FALSE, lines |-> << <<>> >>]
    ELSE [raised |-> FALSE, lines |-> api.lines]

\* LLMService.search_files: [line.strip() for line in response.split('\n')
\* if line.strip()]
SearchFiles(file_names, api) ==
    LET response == Complete(api)
        kept == SelectSeq(response.lines, LAMBDA line : Strip(line) # <<>>)
    IN  [raised |-> response.raised,
         names |-> IF response.raised THEN <<>>
                   ELSE [k \in 1..Len(kept) |-> Strip(kept[k])]]

\* the last candidate with the name instead of the first
MutMatchNameLast(candidate_records, name) ==
    LET hits == {k \in 1..Len(candidate_records) : candidate_records[k].name = name}
    IN  IF hits = {} THEN <<>>
        ELSE <<candidate_records[CHOOSE k \in hits : \A j \in hits : j <= k]>>

\* for record in candidate_records: if record.get('name') == name:
\* results.append(record); break
MatchName(candidate_records, name) ==
    LET hits == {k \in 1..Len(candidate_records) : candidate_records[k].name = name}
    IN  IF hits = {} THEN <<>>
        ELSE <<candidate_records[CHOOSE k \in hits : \A j \in hits : k <= j]>>

\* for name in matching_names: ...
RECURSIVE MatchNames(_, _)
MatchNames(candidate_records, matching_names) ==
    IF matching_names = <<>> THEN <<>>
    ELSE MatchName(candidate_records, Head(matching_names))
         \o MatchNames(candidate_records, Tail(matching_names))

\* the candidates handed to search_llm are the semantic stage's results
MutLlmCandidatesSemantic(base_results, semantic_results) == semantic_results

\* previous_results=base_results in multi_search's call of search_llm
LlmCandidates(base_results, semantic_results) == base_results

\* SearchPipeline.search_llm.  The result is as for SearchSemantic, with
\* file_names, the names handed to search_files, and matching_names, the
\* names it answered.
SearchLlm(fs, history, directory, extensions, previous_results, api) ==
    LET candidate_records ==
            IF previous_results = <<>>
            THEN QueryFiles(fs, directory, extensions, FALSE)
            ELSE previous_results
        file_names == [k \in 1..Len(candidate_records) |-> candidate_records[k].name]
        matching == SearchFiles(file_names, api)
        results == MatchNames(candidate_records, matching.names)
    IN  IF candidate_records = <<>>
        THEN [raised |-> FALSE, results |-> <<>>, history |-> history,
              calls |-> <<>>, failed |-> {}, file_names |-> <<>>,
              matching_names |-> <<>>]
        ELSE IF matching.raised
        THEN [raised |-> TRUE, results |-> <<>>, history |-> history,
              calls |-> <<"search_files">>, failed |-> {"complete"},
              file_names |-> file_names, matching_names |-> <<>>]
        ELSE [raised |-> FALSE, results |-> results,
              history |-> AddToHistory(history, results, "llm"),
              calls |-> <<"search_files">>,
              failed |-> IF api.raises THEN {"complete"} ELSE {},
              file_names |-> file_names, matching_names |-> matching.names]

\* every record of llm_results is appended, whatever results holds
MutExtendWithLlmAll(results, llm_results, top_k) == results \o llm_results

\* multi_search's loop over llm_results: a record whose id results does not
\* hold is appended, and the loop breaks once results holds top_k records
RECURSIVE ExtendWithLlm(_, _, _)
ExtendWithLlm(results, llm_results, top_k) ==
    IF llm_results = <<>> THEN results
    ELSE IF Head(llm_results).id \notin Ids(results)
    THEN LET r2 == Append(results, Head(llm_results))
         IN  IF Len(r2) >= top_k THEN r2
             ELSE ExtendWithLlm(r2, Tail(llm_results), top_k)
    ELSE ExtendWithLlm(results, Tail(llm_results), top_k)

\* the guard dropped: the stages run on an empty candidate set
MutShortCircuitNever(base_results) == FALSE

\* if not base_results: return []
ShortCircuit(base_results) == base_results = <<>>

\* return results[:top_k] cut one record short
MutReturnedShort(results, top_k) == Take(results, top_k - 1)

\* return results[:top_k]
Returned(results, top_k) == Take(results, top_k)

\* the keyword arguments multi_search declares; a call with any other
\* keyword raises TypeError before the body runs
MultiSearchKeywords ==
    {"query", "directory", "extensions", "use_semantic", "use_llm",
     "use_hard_llm", "top_k"}

-----------------------------------------------------------------------------
(* SearchPipeline.multi_search, one step per collaborator it waits for *)

\* multi_search's last statements: the neither-stage case, the 'multi'
\* history entry, and the return
Finish(i, history, results) ==
    LET a == i.args[1]
        final == IF ~a.use_semantic /\ ~a.use_llm
                 THEN Take(i.base_results, a.top_k)
                 ELSE results
    IN  /\ search_history' = AddToHistory(history, final, "multi")
        /\ inv' = [i EXCEPT !.pc = "returned", !.merged = final,
                            !.result = Returned(final, a.top_k)]

\* search_pipeline = SearchPipeline(db, embedding_service, llm, cfg);
\* search_pipeline.multi_search(...): the call, the structural filter and
\* what follows it up to the first collaborator call.  a.filter_criteria is
\* the filter_criteria keyword of handle_search_command's call, NULL when the
\* caller passes none.  With fault the store query raises sqlite3.Error
\* inside get_files_by_criteria.
MultiSearch(a, fault) ==
    LET keywords == MultiSearchKeywords \cup
                    (IF a.filter_criteria # NULL THEN {"filter_criteria"} ELSE {})
        base_results == QueryFiles(files, a.directory, a.extensions, fault)
        called == [IdleInv EXCEPT !.args = Some(a)]
        i == [called EXCEPT !.failed = IF fault THEN {"get_files_by_criteria"} ELSE {}]
    IN  /\ inv.pc = "idle"
        /\ IF ~(keywords \subseteq MultiSearchKeywords)
           THEN /\ inv' = [called EXCEPT !.pc = "raised", !.error = "TypeError"]
                /\ search_history' = <<>>
           ELSE IF ShortCircuit(base_results)
           THEN /\ inv' = [i EXCEPT !.pc = "returned", !.base_results = base_results]
                /\ search_history' = <<>>
           ELSE IF a.use_semantic
           THEN /\ inv' = [i EXCEPT !.pc = "semantic", !.base_results = base_results]
                /\ search_history' = <<>>
           ELSE IF a.use_llm
           THEN /\ inv' = [i EXCEPT !.pc = "llm", !.base_results = base_results]
                /\ search_history' = <<>>
           ELSE Finish([i EXCEPT !.base_results = base_results], <<>>, <<>>)
        /\ UNCHANGED <<files, seq, disk, now, pass, ret, sem, registry,
                   walk, manager>>

\* Stage 2: self.search_semantic(query, top_k, previous_results=base_results)
\* and results.extend(semantic_results)
SemanticStage(emb) ==
    LET a == inv.args[1]
        s == SearchSemantic(files, search_history, a.top_k, NULL, NULL,
                            inv.base_results, emb)
        i == [inv EXCEPT !.semantic_results = s.results,
                         !.calls = inv.calls \o s.calls,
                         !.failed = inv.failed \cup s.failed]
    IN  /\ inv.pc = "semantic"
        /\ IF s.raised
           THEN /\ inv' = [i EXCEPT !.pc = "raised", !.error = s.error]
                /\ search_history' = s.history
           ELSE IF a.use_llm
           THEN /\ inv' = [i EXCEPT !.pc = "llm"]
                /\ search_history' = s.history
           ELSE Finish(i, s.history, s.results)
        /\ UNCHANGED <<files, seq, disk, now, pass, ret, sem, registry,
                   walk, manager>>

\* Stage 3: self.search_llm(query, use_hard_model, previous_results=
\* base_results) and the loop that adds its records to results
LlmStage(api) ==
    LET a == inv.args[1]
        l == SearchLlm(files, search_history, NULL, NULL,
                       LlmCandidates(inv.base_results, inv.semantic_results), api)
        i == [inv EXCEPT !.llm_results = l.results,
                         !.file_names = l.file_names,
                         !.matching_names = l.matching_names,
                         !.calls = inv.calls \o l.calls,
                         !.failed = inv.failed \cup l.failed]
    IN  /\ inv.pc = "llm"
        /\ IF l.raised
           THEN /\ inv' = [i EXCEPT !.pc = "raised", !.error = "LLMError"]
                /\ search_history' = l.history
           ELSE Finish(i, l.history,
                       ExtendWithLlm(inv.semantic_results, l.results, a.top_k))
        /\ UNCHANGED <<files, seq, disk, now, pass, ret, sem, registry,
                   walk, manager>>

\* handle_search_command after multi_search: the results are printed, or the
\* exception ends the command; the pipeline and its history are gone with it
EndSearch ==
    /\ inv.pc \in {"returned", "raised"}
    /\ inv' = IdleInv
    /\ search_history' = <<>>
    /\ UNCHANGED <<files, seq, disk, now, pass, ret, sem, registry,
                   walk, manager>>

-----------------------------------------------------------------------------
(* SpecSearch: a client searches a fixed store with multi_search, the         *)
(* embedding model and the language model answering as they please            *)

PP1 == <<"/", "p", "/", "a", ".", "p", "y">>
PP2 == <<"/", "p", "/", "b", ".", "t", "x", "t">>
PP3 == <<"/", "p", "/", "c", ".", "p", "y">>
PQ1 == <<"/", "q", "/", "a", ".", "p", "y">>

DirP == <<"/", "p">>
DotMd == <<".", "m", "d">>

\* a row whose embedding update_embedding_id has recorded
Embedded(row, embedding_id) ==
    [row EXCEPT !.embedding_id = Some(embedding_id),
                !.embedding_type = Some("content")]

\* /p/a.py (1), /p/b.txt (2), /p/c.py (3), /q/a.py (4); all but /p/c.py have
\* an embedding
SearchStore ==
    {Embedded(StoredRow(PP1, 1, S1, 1), 0),
     Embedded(StoredRow(PP2, 2, S3, 1), 1),
     StoredRow(PP3, 3, S1, 1),
     Embedded(StoredRow(PQ1, 4, S4, 1), 2)}

\* the values of top_k the client passes
TopKs == (0..MaxTopK) \cup {DefaultTopK}

FilterCriteria ==
    {[min_size |-> NULL, max_size |-> NULL],
     [min_size |-> Some(20), max_size |-> NULL]}

SearchArgs ==
    [directory : {NULL, DirP},
     extensions : {NULL, <<DotPy>>, <<DotMd>>},
     use_semantic : BOOLEAN,
     use_llm : BOOLEAN,
     top_k : TopKs,
     filter_criteria : {NULL} \cup {Some(f) : f \in FilterCriteria}]

\* the sequences without repetition over a set, up to a length
InjectiveSeqs(S, n) ==
    UNION {{s \in [1..k -> S] : \A x, y \in 1..k : x # y => s[x] # s[y]} : k \in 0..n}

\* what the embedding collaborator may do during one search_semantic
EmbBehaviours ==
    [query_raises : {TRUE}, rank : {<<>>}, k0_raises : {FALSE}, hits : {<<>>}]
    \cup
    [query_raises : {FALSE},
     rank : InjectiveSeqs({r.id : r \in {q \in SearchStore : q.embedding_id # NULL}}, 3),
     k0_raises : BOOLEAN,
     hits : {<<>>, <<3, 1>>}]

\* the lines a language model may answer with: names of files, a name of no
\* file, a blank line, a name with blanks around it
LlmLines ==
    {Basename(PP1), Basename(PP2), Basename(PP3), <<"z">>, <<" ">>,
     <<" ">> \o Basename(PP3) \o <<" ">>}

\* what the language-model API may do during one search_files
LlmBehaviours ==
    [raises : {TRUE}, lines : {<<>>}]
    \cup
    [raises : {FALSE}, lines : UNION {[1..k -> LlmLines] : k \in 0..MaxLines}]

InitSearch ==
    /\ files = SearchStore
    /\ seq = 4
    /\ disk = InitDisk
    /\ now = 0
    /\ pass = [i \in PassIds |-> IdlePass]
    /\ ret = NoRet
    /\ search_history = <<>>
    /\ inv = IdleInv
    /\ sem = IdleSem
    /\ registry = EmptyRegistry
    /\ walk = IdleWalk
    /\ manager = NoManager

NextSearch ==
    \/ \E a \in SearchArgs : MultiSearch(a, FALSE)
    \/ \E emb \in EmbBehaviours : SemanticStage(emb)
    \/ \E api \in LlmBehaviours : LlmStage(api)
    \/ EndSearch

SpecSearch == InitSearch /\ [][NextSearch]_vars

-----------------------------------------------------------------------------
(* SpecSearchFault: the same client, while the store query of the structural *)
(* filter may fail with sqlite3.Error                                        *)

NextSearchFault ==
    \/ \E a \in SearchArgs, fault \in BOOLEAN : MultiSearch(a, fault)
    \/ \E emb \in EmbBehaviours : SemanticStage(emb)
    \/ \E api \in LlmBehaviours : LlmStage(api)
    \/ EndSearch

SpecSearchFault == InitSearch /\ [][NextSearchFault]_vars

-----------------------------------------------------------------------------
(* SpecSemantic: a client calls search_semantic directly on a fresh pipeline *)
(* over the store of SpecSearch, with candidate lists around the threshold   *)

StoreIds == {r.id : r \in SearchStore}

\* a record of an earlier search whose row has been swept since; it has no
\* embedding
SweptRow == StoredRow(PP3, 0, S1, 1)

Swept(id) == [SweptRow EXCEPT !.id = id]

\* previous_results: the rows of the store with the ids listed, followed by
\* swept records up to the size
Candidates(listed, size) ==
    [k \in 1..size |->
        IF k <= Len(listed)
        THEN CHOOSE r \in SearchStore : r.id = listed[k]
        ELSE Swept(Cardinality(SearchStore) + k)]

\* the rows a caller lists at the head of previous_results
Listings == {<<>>, <<1>>, <<3>>, <<2, 1>>, <<1, 3>>}

\* the calls of the client: without candidates, with a few rows, and with
\* lists one below, at and one above the threshold
SemanticArgs ==
    [top_k : TopKs, directory : {NULL}, extensions : {NULL, <<DotPy>>},
     listed : {<<>>}, size : {0}]
    \cup
    {a \in [top_k : TopKs, directory : {NULL}, extensions : {NULL},
            listed : Listings \ {<<>>}, size : 1..2] : a.size = Len(a.listed)}
    \cup
    [top_k : TopKs, directory : {NULL}, extensions : {NULL},
     listed : {<<2, 1>>},
     size : {ScopedThreshold - 1, ScopedThreshold, ScopedThreshold + 1}]

\* EmbedManager.__init__: IndexFlatL2 for 'l2' reports squared distances,
\* nearest (smallest) first; IndexFlatIP for 'ip' and 'cosine' reports inner
\* products, largest first
Metrics == {"l2", "ip", "cosine"}

IndexOrder(metric, d1, d2) == IF metric = "l2" THEN d1 <= d2 ELSE d1 >= d2

\* labels is in an order index.search may report under the metric, distance
\* being the value the index computes for a record's vector; the order of
\* equal values is the index's choice
InIndexOrder(metric, distance, labels) ==
    \A x, y \in 1..Len(labels) :
        (x < y /\ labels[x] \in DOMAIN distance /\ labels[y] \in DOMAIN distance)
            => IndexOrder(metric, distance[labels[x]], distance[labels[y]])

\* handles of vectors that belong to no record of the store, as many as the
\* post-filter oversamples for one result
Strangers == [k \in 1..Oversample |-> Cardinality(SearchStore) + k]

\* what the full index may report: nothing, records, records followed by
\* the -1 of a missing neighbour, a record behind strangers
HitLists == {<<>>, <<3, 1>>, <<4, 2, 1, 3>>, <<2, 1, -1>>, Strangers \o <<1>>}

\* the values the index computes for the records' vectors: all equal, one
\* record apart, two and two
DistanceProfiles ==
    {[id \in StoreIds |-> 0],
     [id \in StoreIds |-> IF id = 1 THEN 0 ELSE 1],
     [id \in StoreIds |-> IF id \in {1, 3} THEN 1 ELSE 0]}

\* what the embedding collaborator may do during a direct search_semantic:
\* as EmbBehaviours, with the metric of the index and the values it computes
SemBehaviours ==
    [query_raises : {TRUE}, rank : {<<>>}, k0_raises : {FALSE}, hits : {<<>>},
     metric : {"ip"}, distance : {[id \in StoreIds |-> 0]}]
    \cup
    {e \in [query_raises : {FALSE},
            rank : InjectiveSeqs({r.id : r \in {q \in SearchStore :
                                                q.embedding_id # NULL}}, 2),
            k0_raises : BOOLEAN,
            hits : HitLists,
            metric : Metrics,
            distance : DistanceProfiles] :
        /\ e.rank = <<>> \/ e.hits = <<>>
        /\ InIndexOrder(e.metric, e.distance, e.rank)
        /\ InIndexOrder(e.metric, e.distance, e.hits)}

InitSemantic ==
    /\ files = SearchStore
    /\ seq = Cardinality(SearchStore)
    /\ disk = InitDisk
    /\ now = 0
    /\ pass = [i \in PassIds |-> IdlePass]
    /\ ret = NoRet
    /\ search_history = <<>>
    /\ inv = IdleInv
    /\ sem = IdleSem
    /\ registry = EmptyRegistry
    /\ walk = IdleWalk
    /\ manager = NoManager

\* pipeline.search_semantic(query, top_k, directory, extensions,
\* previous_results)
CallSearchSemantic(a, emb) ==
    LET s == SearchSemantic(files, search_history, a.top_k, a.directory,
                            a.extensions, Candidates(a.listed, a.size), emb)
    IN  /\ sem.pc = "idle"
        /\ sem' = [pc |-> IF s.raised THEN "raised" ELSE "returned",
                   args |-> Some(a), emb |-> Some(emb), results |-> s.results,
                   calls |-> s.calls, failed |-> s.failed, error |-> s.error]
        /\ search_history' = s.history
        /\ UNCHANGED <<files, seq, disk, now, pass, ret, inv, registry,
                   walk, manager>>

\* SearchPipeline.__init__: a new pipeline, search_history = []
NewPipeline ==
    /\ sem.pc # "idle"
    /\ sem' = IdleSem
    /\ search_history' = <<>>
    /\ UNCHANGED <<files, seq, disk, now, pass, ret, inv, registry,
                   walk, manager>>

NextSemantic ==
    \/ \E a \in SemanticArgs, emb \in SemBehaviours : CallSearchSemantic(a, emb)
    \/ NewPipeline

SpecSemantic == InitSemantic /\ [][NextSemantic]_vars

-----------------------------------------------------------------------------
(* SpecRegistry: embedders are registered with the EmbedderRegistry          *)
(* singleton and files are resolved against it                               *)

\* most register calls the model follows
MaxRegistrations == 3

DotPdf == <<".", "p", "d", "f">>
DotPyMixed == <<".", "P", "y">>

RP1 == <<"/", "p", "/", "A", ".", "P", "y">>
RP2 == <<"/", "p", "/", "n", "o", "t", "e", "s">>

\* an embedder: its class, its supported_extensions, and, when the class
\* overrides can_embed to look at the file, the paths it accepts
Embedder(cls, supported_extensions, overrides, accepts) ==
    [cls |-> cls, supported_extensions |-> supported_extensions,
     overrides |-> overrides, accepts |-> accepts]

\* the default embedders (with two of the text embedder's extensions), an
\* embedder for source code, one that declares a mixed-case extension, and
\* two that look at the file's content
Embedders ==
    {Embedder("TextFileEmbedder", {DotTxt, DotPy}, FALSE, {}),
     Embedder("PDFEmbedder", {DotPdf}, FALSE, {}),
     Embedder("CodeEmbedder", {DotPy}, FALSE, {}),
     Embedder("MixedCaseEmbedder", {DotPyMixed}, FALSE, {}),
     Embedder("MagicEmbedder", {}, TRUE, {RP2, PP1}),
     Embedder("ShebangEmbedder", {}, TRUE, {RP2})}

\* the name argument of register: left out, or the name of the default text
\* embedder
RegisterNames == {NULL, Some("TextFileEmbedder")}

\* the paths get_for_file is asked about
RegistryPaths == {PP1, PP2, RP1, RP2}

\* FileEmbedder.can_embed, or the override of a class that has one
CanEmbed(embedder, file_path) ==
    IF embedder.overrides
    THEN file_path \in embedder.accepts
    ELSE Lower(SplitextExt(file_path)) \in embedder.supported_extensions

\* EmbedderRegistry.register: the registry afterwards, and the extensions a
\* warning was printed for
Register(reg, embedder, name) ==
    LET n == IF name = NULL THEN embedder.cls ELSE name[1]
        entry == [name |-> n, embedder |-> embedder]
        known == \E k \in 1..Len(reg.embedders) : reg.embedders[k].name = n
    IN  [embedders |->
             IF known
             THEN [k \in 1..Len(reg.embedders) |->
                      IF reg.embedders[k].name = n THEN entry
                      ELSE reg.embedders[k]]
             ELSE Append(reg.embedders, entry),
         extension_map |->
             {m \in reg.extension_map : m.ext \notin embedder.supported_extensions}
             \cup {[ext |-> ext, name |-> n] : ext \in embedder.supported_extensions},
         warned |->
             {ext \in embedder.supported_extensions :
                 \E m \in reg.extension_map : m.ext = ext}]

\* the probe runs before the extension map is looked at
MutGetForFileProbeFirst(reg, file_path) ==
    LET able == {k \in 1..Len(reg.embedders) :
                    CanEmbed(reg.embedders[k].embedder, file_path)}
        ext == Lower(SplitextExt(file_path))
    IN  IF able # {}
        THEN Some(reg.embedders[CHOOSE k \in able : \A j \in able : k <= j].embedder)
        ELSE IF \E m \in reg.extension_map : m.ext = ext
        THEN LET n == (CHOOSE m \in reg.extension_map : m.ext = ext).name
             IN  Some(reg.embedders[CHOOSE k \in 1..Len(reg.embedders) :
                                        reg.embedders[k].name = n].embedder)
        ELSE NULL

\* EmbedderRegistry.get_for_file: the embedder, or None
GetForFile(reg, file_path) ==
    LET ext == Lower(SplitextExt(file_path))
        able == {k \in 1..Len(reg.embedders) :
                    CanEmbed(reg.embedders[k].embedder, file_path)}
    IN  IF \E m \in reg.extension_map : m.ext = ext
        THEN LET n == (CHOOSE m \in reg.extension_map : m.ext = ext).name
             IN  Some(reg.embedders[CHOOSE k \in 1..Len(reg.embedders) :
                                        reg.embedders[k].name = n].embedder)
        ELSE IF able # {}
        THEN Some(reg.embedders[CHOOSE k \in able : \A j \in able : k <= j].embedder)
        ELSE NULL

\* what a registry call leaves in registry.last
RegistryCall(op, embedder, name, file_path, result, warned) ==
    Some([op |-> op, embedder |-> embedder, name |-> name,
          file_path |-> file_path, result |-> result, warned |-> warned])

\* registry.register(embedder, name); log keeps the calls in their order
CallRegister(embedder, name) ==
    LET r == Register(registry, embedder, name)
    IN  /\ Len(registry.log) < MaxRegistrations
        /\ registry' =
              [embedders |-> r.embedders,
               extension_map |-> r.extension_map,
               log |-> Append(registry.log,
                              [name |-> IF name = NULL THEN embedder.cls
                                        ELSE name[1],
                               embedder |-> embedder]),
               last |-> RegistryCall("register", Some(embedder), name, NULL,
                                     NULL, r.warned)]
        /\ UNCHANGED <<files, seq, disk, now, pass, ret, search_history, inv, sem,
                   walk, manager>>

\* registry.get_for_file(file_path)
CallGetForFile(file_path) ==
    /\ registry' =
          [registry EXCEPT
              !.last = RegistryCall("get_for_file", NULL, NULL, file_path,
                                    GetForFile(registry, file_path), {})]
    /\ UNCHANGED <<files, seq, disk, now, pass, ret, search_history, inv, sem,
                   walk, manager>>

NextRegistry ==
    \/ \E embedder \in Embedders, name \in RegisterNames :
          CallRegister(embedder, name)
    \/ \E file_path \in RegistryPaths : CallGetForFile(file_path)

InitRegistry ==
    /\ files = {}
    /\ seq = 0
    /\ disk = InitDisk
    /\ now = 0
    /\ pass = [i \in PassIds |-> IdlePass]
    /\ ret = NoRet
    /\ search_history = <<>>
    /\ inv = IdleInv
    /\ sem = IdleSem
    /\ registry = EmptyRegistry
    /\ walk = IdleWalk
    /\ manager = NoManager

SpecRegistry == InitRegistry /\ [][NextRegistry]_vars

-----------------------------------------------------------------------------
(* SpecCleanup: the index command, with --rebuild running the pass of Spec   *)
(* and --cleanup run between passes                                          *)

\* handle_index_command with --cleanup: db.reset_seen_flags() and then
\* db.delete_missing_files(), with no walk in between
IndexCleanup ==
    /\ pass[1].pc = "idle"
    /\ LET r == ResetSeenFlags(files, FALSE)
           d == DeleteMissingFiles(r.files, FALSE)
       IN  /\ files' = d.files
           /\ ret' = Called("index_cleanup", 0, NULL, NULL, {}, FALSE, d.result,
                            "ok", r.files \ d.files)
    /\ UNCHANGED <<seq, disk, now, pass>>
    /\ UNCHANGED pipeVars

NextCleanup ==
    \/ Next
    \/ IndexCleanup

SpecCleanup == Init /\ [][NextCleanup]_vars

-----------------------------------------------------------------------------
(* SpecWalk: update_index is run as a whole, with ignore patterns, over a    *)
(* tree with a dot-directory and a dot-file, while files come and go        *)
(* between the runs                                                          *)

\* most ids a store of SpecWalk hands out
MaxWalkIds == 3

T1 == <<"/", "t", "/", "a", ".", "p", "y">>
T2 == <<"/", "t", "/", ".", "g", "/", "d", "/", "H">>
T3 == <<"/", "t", "/", "d", "/", ".", "e">>

\* the files of the tree, in the order the directory listings yield them
TreeOrder == <<T1, T2, T3>>

TreePaths == {TreeOrder[k] : k \in 1..Len(TreeOrder)}

\* the directories update_index is started on
StartPaths == {<<"/", "t">>, <<"/", "t", "/", ".", "g">>}

\* ignore patterns: dot names, Python files, names of one character
DotNames == <<".", "*">>
PyFiles == <<"*", ".", "p", "y">>
OneChar == <<"?">>

\* the pattern lists update_index is given: none (test_update_index), the
\* configured default, and two others
PatternLists == {{}, {DotNames}, {PyFiles}, {DotNames, OneChar}}

\* fnmatch.fnmatch(name, pattern) for patterns of literal characters, * and
\* ?; on POSIX os.path.normcase changes nothing, so case matters
RECURSIVE Fnmatch(_, _)
Fnmatch(name, pattern) ==
    IF pattern = <<>> THEN name = <<>>
    ELSE IF Head(pattern) = "*"
    THEN \/ Fnmatch(name, Tail(pattern))
         \/ name # <<>> /\ Fnmatch(Tail(name), pattern)
    ELSE IF Head(pattern) = "?"
    THEN name # <<>> /\ Fnmatch(Tail(name), Tail(pattern))
    ELSE /\ name # <<>>
         /\ Head(name) = Head(pattern)
         /\ Fnmatch(Tail(name), Tail(pattern))

\* should_ignore: any(fnmatch.fnmatch(name, pattern) for pattern in ...)
ShouldIgnore(name, ignore_patterns) ==
    \E pattern \in ignore_patterns : Fnmatch(name, pattern)

\* the files on disk
Present(dsk) == {p \in DOMAIN dsk : dsk[p] # NULL}

\* p is root joined with one name
ChildOf(p, root) ==
    /\ Len(p) > Len(root) + 1
    /\ SubSeq(p, 1, Len(root) + 1) = root \o <<"/">>
    /\ \A k \in (Len(root) + 2)..Len(p) : p[k] # "/"

\* the files entry of os.walk for root
FilesIn(dsk, root) == {p \in Present(dsk) : ChildOf(p, root)}

\* the dirs entry of os.walk for root: the directories holding some file
DirsIn(dsk, root) ==
    {d \in UNION {{SubSeq(p, 1, k) : k \in 1..Len(p)} : p \in Present(dsk)} :
        /\ ChildOf(d, root)
        /\ \E p \in Present(dsk) :
              Len(p) > Len(d) /\ SubSeq(p, 1, Len(d) + 1) = d \o <<"/">>}

\* the walk descends into every directory, ignored or not
RECURSIVE MutWalkFromNoPrune(_, _, _)
MutWalkFromNoPrune(dsk, root, ignore_patterns) ==
    {p \in FilesIn(dsk, root) : ~ShouldIgnore(Basename(p), ignore_patterns)}
    \cup UNION {MutWalkFromNoPrune(dsk, d, ignore_patterns) : d \in DirsIn(dsk, root)}

\* for root, dirs, files in os.walk(start_path): dirs[:] keeps the
\* directories not ignored, and the files not ignored are processed
RECURSIVE WalkFrom(_, _, _)
WalkFrom(dsk, root, ignore_patterns) ==
    {p \in FilesIn(dsk, root) : ~ShouldIgnore(Basename(p), ignore_patterns)}
    \cup UNION {WalkFrom(dsk, d, ignore_patterns) :
                   d \in {e \in DirsIn(dsk, root) :
                             ~ShouldIgnore(Basename(e), ignore_patterns)}}

\* db.touch_file(file_data) for each path of the walk, in its order
RECURSIVE TouchAll(_, _, _, _, _)
TouchAll(fs, sq, clk, dsk, paths) ==
    IF paths = <<>> THEN [files |-> fs, seq |-> sq]
    ELSE LET t == TouchFile(fs, sq, clk, dsk, FileData(Head(paths), "file"), FALSE)
         IN  TouchAll(t.files, t.seq, clk, dsk, Tail(paths))

\* update_index(start_path, ignore_patterns) from reset to sweep, while
\* nothing else runs
UpdateIndex(start_path, ignore_patterns) ==
    LET r == ResetSeenFlags(files, FALSE)
        reached == WalkFrom(disk, start_path, ignore_patterns)
        t == TouchAll(r.files, seq, now, disk,
                      SelectSeq(TreeOrder, LAMBDA p : p \in reached))
        d == DeleteMissingFiles(t.files, FALSE)
    IN  /\ t.seq <= MaxWalkIds
        /\ files' = d.files
        /\ seq' = t.seq
        /\ ret' = Called("update_index", 0, NULL, NULL, {}, TRUE, d.result,
                         "ok", {})
        /\ walk' = [ran |-> TRUE, start_path |-> start_path,
                    ignore_patterns |-> ignore_patterns]
        /\ UNCHANGED <<disk, now, pass, search_history, inv, sem, registry,
                       manager>>

InitWalk ==
    /\ files = {}
    /\ seq = 0
    /\ disk = [p \in TreePaths |-> Some(S1)]
    /\ now = 0
    /\ pass = [i \in PassIds |-> IdlePass]
    /\ ret = NoRet
    /\ search_history = <<>>
    /\ inv = IdleInv
    /\ sem = IdleSem
    /\ registry = EmptyRegistry
    /\ walk = IdleWalk
    /\ manager = NoManager

NextWalk ==
    \/ \E start_path \in StartPaths, ignore_patterns \in PatternLists :
          UpdateIndex(start_path, ignore_patterns)
    \/ \E p \in TreePaths : WriteFile(p, S1)
    \/ \E p \in TreePaths : RemoveFile(p)

SpecWalk == InitWalk /\ [][NextWalk]_vars

-----------------------------------------------------------------------------
(* SpecStages: a client calls the stages filter_by_extension, search_llm and *)
(* search_semantic directly on a fresh pipeline over the store of SpecSearch, *)
(* with and without previous_results                                         *)

\* the row of the store with the id
StoreRow(id) == CHOOSE r \in SearchStore : r.id = id

\* the previous_results a caller passes: an empty list and lists of rows
PreviousResults ==
    {<<>>, <<StoreRow(1)>>, <<StoreRow(3), StoreRow(1)>>, <<StoreRow(2), StoreRow(4)>>}

\* the extensions a caller filters by: without the dot, in mixed case, and
\* one more
StageExtensions == {<< <<"p", "y">> >>, <<DotPyMixed>>, <<DotTxt>>}

\* the calls of the client.  passed: the caller gives previous_results;
\* otherwise the parameter keeps its default None
StageArgs ==
    [passed : {TRUE}, previous_results : PreviousResults,
     extensions : StageExtensions, top_k : 1..MaxTopK]
    \cup
    [passed : {FALSE}, previous_results : {<<>>},
     extensions : StageExtensions, top_k : 1..MaxTopK]

\* ext.lower() if ext.startswith(".") else f".{ext.lower()}"
NormalizedExtension(ext) ==
    IF ext # <<>> /\ ext[1] = "." THEN Lower(ext) ELSE <<".">> \o Lower(ext)

\* SearchPipeline.filter_by_extension; an empty previous_results is falsy as
\* None is
FilterByExtension(fs, history, extensions, directory, previous_results) ==
    LET normalized_extensions ==
            [k \in 1..Len(extensions) |-> NormalizedExtension(extensions[k])]
        results ==
            IF previous_results # <<>>
            THEN SelectSeq(previous_results,
                           LAMBDA record : ExtensionOf(record.name)
                                               \in Range(normalized_extensions))
            ELSE QueryFiles(fs, directory, normalized_extensions, FALSE)
    IN  [results |-> results,
         history |-> AddToHistory(history, results, "extension")]

\* the pipeline's state after a stage: its call, its outcome
StageCalled(stage, a, emb, pc, results, calls, failed, error) ==
    [pc |-> pc, args |-> Some([stage |-> stage, passed |-> a.passed,
                     previous_results |-> a.previous_results,
                     extensions |-> a.extensions, top_k |-> a.top_k]),
     emb |-> emb, results |-> results, calls |-> calls, failed |-> failed,
     error |-> error]

\* pipeline.filter_by_extension(extensions, previous_results=...)
CallFilterByExtension(a) ==
    LET f == FilterByExtension(files, search_history, a.extensions, NULL,
                               a.previous_results)
    IN  /\ sem.pc = "idle"
        /\ sem' = StageCalled("filter_by_extension", a, NULL, "returned",
                              f.results, <<>>, {}, "none")
        /\ search_history' = f.history
        /\ UNCHANGED <<files, seq, disk, now, pass, ret, inv, registry,
                       walk, manager>>

\* pipeline.search_llm(query, previous_results=...)
CallSearchLlm(a, api) ==
    LET l == SearchLlm(files, search_history, NULL, NULL, a.previous_results, api)
    IN  /\ sem.pc = "idle"
        /\ sem' = StageCalled("search_llm", a, NULL,
                              IF l.raised THEN "raised" ELSE "returned",
                              l.results, l.calls, l.failed,
                              IF l.raised THEN "LLMError" ELSE "none")
        /\ search_history' = l.history
        /\ UNCHANGED <<files, seq, disk, now, pass, ret, inv, registry,
                       walk, manager>>

\* pipeline.search_semantic(query, top_k, previous_results=...)
CallSearchSemanticStage(a, emb) ==
    LET s == SearchSemantic(files, search_history, a.top_k, NULL, NULL,
                            a.previous_results, emb)
    IN  /\ sem.pc = "idle"
        /\ sem' = StageCalled("search_semantic", a, Some(emb),
                              IF s.raised THEN "raised" ELSE "returned",
                              s.results, s.calls, s.failed, s.error)
        /\ search_history' = s.history
        /\ UNCHANGED <<files, seq, disk, now, pass, ret, inv, registry,
                       walk, manager>>

NextStages ==
    \/ \E a \in StageArgs : CallFilterByExtension(a)
    \/ \E a \in StageArgs, api \in LlmBehaviours : CallSearchLlm(a, api)
    \/ \E a \in StageArgs, emb \in SemBehaviours : CallSearchSemanticStage(a, emb)
    \/ NewPipeline

SpecStages == InitSemantic /\ [][NextStages]_vars

-----------------------------------------------------------------------------
(* EmbedManager: the FAISS flat index behind add_embeddings and search *)

\* the most vectors an index holds
MaxVectors == 2

MetricL2 == <<"l", "2">>
MetricIp == <<"i", "p">>
MetricCosine == <<"c", "o", "s", "i", "n", "e">>

\* the metric arguments: the three supported names, one in mixed case and
\* one unsupported name
MetricNames == {MetricL2, MetricIp, MetricCosine, <<"i", "P">>, <<"d", "o", "t">>}

\* the dim arguments
Dims == {1, 2}

\* the k arguments
SearchKs == {1, 2}

\* the vectors callers pass: one non-negative component is set, the others
\* are 0
Vectors == {<<2>>, <<2, 0>>, <<0, 1>>}

\* the embeddings arguments: no row, one row, two rows, and rows of
\* different lengths
Batches ==
    {<<>>} \cup {<<v>> : v \in Vectors}
        \cup {<< <<0, 1>>, <<2, 0>> >>, << <<2>>, <<0, 1>> >>}

\* np.array(embeddings, dtype='float32'): an empty list is 1-D, rows of one
\* length make a 2-D array, rows of different lengths are refused
ArrayOf(embeddings) ==
    IF embeddings = <<>> THEN [ok |-> TRUE, ndim |-> 1, cols |-> 0]
    ELSE IF \E i \in 1..Len(embeddings) : Len(embeddings[i]) # Len(embeddings[1])
         THEN [ok |-> FALSE, ndim |-> 0, cols |-> 0]
         ELSE [ok |-> TRUE, ndim |-> 2, cols |-> Len(embeddings[1])]

\* v / (norm + 1e-10) for a vector with at most one component set, that one
\* positive: the component becomes 1
Normalise(v) == [i \in 1..Len(v) |-> IF v[i] = 0 THEN 0 ELSE 1]

\* the rows as add_embeddings hands them to the index
Prepared(metric, embeddings) ==
    IF metric = MetricCosine
    THEN [i \in 1..Len(embeddings) |-> Normalise(embeddings[i])]
    ELSE embeddings

\* the arguments of a call; a call leaves the ones it does not take empty
CallArgs(dim, metric, embeddings, k) ==
    [dim |-> dim, metric |-> metric, embeddings |-> embeddings, k |-> k]

\* the call on manager m ended with the exception
CallRaised(m, op, args, error) ==
    [m EXCEPT !.op = op, !.args = args, !.raised = TRUE, !.error = error,
              !.before = Len(m.index.xb), !.result = <<>>]

\* the call on manager m returned
CallReturned(m, op, args, result) ==
    [m EXCEPT !.op = op, !.args = args, !.raised = FALSE, !.error = "none",
              !.before = Len(m.index.xb), !.result = result]

\* EmbedManager(dim, metric) where manager m was; the index file stays
EmbedManagerInit(m, dim, metric) ==
    LET args == CallArgs(dim, metric, <<>>, 0)
        made(kind) ==
            [NoManager EXCEPT !.built = TRUE, !.dim = dim,
                              !.metric = Lower(metric),
                              !.index = [d |-> dim, kind |-> kind, xb |-> <<>>],
                              !.saved = m.saved, !.op = "init", !.args = args]
    IN  IF Lower(metric) = MetricL2 THEN made("IndexFlatL2")
        ELSE IF Lower(metric) \in {MetricIp, MetricCosine} THEN made("IndexFlatIP")
        ELSE CallRaised(m, "init", args, "ValueError")

\* the rows go in front of the vectors the index holds
MutIndexAddInFront(index, rows) == [index EXCEPT !.xb = rows \o @]

\* index.add(rows): the rows follow the vectors the index holds
IndexAdd(index, rows) == [index EXCEPT !.xb = @ \o rows]

\* the rows are added whatever their shape
MutAddEmbeddingsUnchecked(m, embeddings) ==
    [CallReturned(m, "add_embeddings", CallArgs(0, <<>>, embeddings, 0), <<>>)
        EXCEPT !.index = IndexAdd(m.index, Prepared(m.metric, embeddings))]

\* add_embeddings(embeddings); the index itself refuses rows of another
\* dimension than its own
AddEmbeddings(m, embeddings) ==
    LET args == CallArgs(0, <<>>, embeddings, 0)
        a == ArrayOf(embeddings)
    IN  IF ~a.ok THEN CallRaised(m, "add_embeddings", args, "ValueError")
        ELSE IF a.ndim # 2 \/ a.cols # m.dim
             THEN CallRaised(m, "add_embeddings", args, "ValueError")
        ELSE IF a.cols # m.index.d
             THEN CallRaised(m, "add_embeddings", args, "AssertionError")
        ELSE [CallReturned(m, "add_embeddings", args, <<>>)
                 EXCEPT !.index = IndexAdd(m.index, Prepared(m.metric, embeddings))]

RECURSIVE Dot(_, _)
Dot(a, b) == IF a = <<>> THEN 0 ELSE a[1] * b[1] + Dot(Tail(a), Tail(b))

\* the squared distance of two vectors
Dist2(a, b) ==
    Dot(a, a) + Dot(b, b) - 2 * Dot(a, b)

\* the index ranks the vector with handle g strictly before the one with
\* handle h for query q
Nearer(index, g, h, q) ==
    IF index.kind = "IndexFlatL2"
    THEN Dist2(index.xb[g + 1], q) < Dist2(index.xb[h + 1], q)
    ELSE Dot(index.xb[g + 1], q) > Dot(index.xb[h + 1], q)

\* index.search(q, k): the handles of the k nearest vectors, nearest first,
\* vectors at the same distance in any order, -1 where the index has fewer
\* than k vectors
IndexSearch(index, q, k) ==
    LET n == Len(index.xb)
    IN  {r \in [1..k -> -1..(n - 1)] :
            /\ \A i \in 1..k : (r[i] = -1) <=> (i > n)
            /\ \A i, j \in 1..Min(k, n) : i < j =>
                   r[i] # r[j] /\ ~Nearer(index, r[j], r[i], q)
            /\ \A i \in 1..Min(k, n) : \A h \in 0..(n - 1) :
                   h \notin {r[j] : j \in 1..Min(k, n)} => ~Nearer(index, h, r[i], q)}

\* what the index can answer when search reaches it
SearchAnswers(m, query_embedding, k) ==
    IF Len(query_embedding) = m.dim /\ Len(query_embedding) = m.index.d
    THEN IndexSearch(m.index, query_embedding, k)
    ELSE {<<>>}

\* search(query_embedding, k) with a 1-D query, answered with r when the
\* index searches
ManagerSearch(m, query_embedding, k, r) ==
    LET args == CallArgs(0, <<>>, <<query_embedding>>, k)
    IN  IF Len(query_embedding) # m.dim
        THEN CallRaised(m, "search", args, "ValueError")
        ELSE IF Len(query_embedding) # m.index.d
             THEN CallRaised(m, "search", args, "AssertionError")
        ELSE CallReturned(m, "search", args, r)

RECURSIVE Flatten(_)
Flatten(rows) == IF rows = <<>> THEN <<>> ELSE rows[1] \o Flatten(Tail(rows))

\* faiss.write_index: the header and the vectors' components in one run
WriteIndex(index) ==
    [d |-> index.d, kind |-> index.kind, ntotal |-> Len(index.xb),
     codes |-> Flatten(index.xb)]

\* faiss.read_index
ReadIndex(file) ==
    [d |-> file.d, kind |-> file.kind,
     xb |-> [i \in 1..file.ntotal |->
                SubSeq(file.codes, (i - 1) * file.d + 1, i * file.d)]]

\* save_index(path)
SaveIndex(m) ==
    [CallReturned(m, "save_index", CallArgs(0, <<>>, <<>>, 0), <<>>)
        EXCEPT !.saved = Some(WriteIndex(m.index))]

\* load_index(path)
LoadIndex(m) ==
    LET args == CallArgs(0, <<>>, <<>>, 0)
    IN  IF m.saved = NULL THEN CallRaised(m, "load_index", args, "FileNotFoundError")
        ELSE [CallReturned(m, "load_index", args, <<>>)
                 EXCEPT !.index = ReadIndex(m.saved[1])]

\* total_embeddings()
TotalEmbeddings(m) == Len(m.index.xb)

ManagerCall(m) ==
    /\ Len(m.index.xb) <= MaxVectors
    /\ manager' = m
    /\ UNCHANGED <<files, seq, disk, now, pass, ret, search_history, inv, sem,
                   registry, walk>>

CallInit(dim, metric) ==
    /\ dim \in Dims
    /\ ManagerCall(EmbedManagerInit(manager, dim, metric))

CallAddEmbeddings(embeddings) ==
    /\ manager.built
    /\ ManagerCall(AddEmbeddings(manager, embeddings))

CallSearch(query_embedding, k) ==
    /\ manager.built
    /\ \E r \in SearchAnswers(manager, query_embedding, k) :
           ManagerCall(ManagerSearch(manager, query_embedding, k, r))

CallSaveIndex ==
    /\ manager.built
    /\ ManagerCall(SaveIndex(manager))

CallLoadIndex ==
    /\ manager.built
    /\ ManagerCall(LoadIndex(manager))

NextManager ==
    \/ \E dim \in Dims, metric \in MetricNames : CallInit(dim, metric)
    \/ \E embeddings \in Batches : CallAddEmbeddings(embeddings)
    \/ \E q \in Vectors, k \in SearchKs : CallSearch(q, k)
    \/ CallSaveIndex
    \/ CallLoadIndex

InitManager ==
    /\ files = {}
    /\ seq = 0
    /\ disk = InitDisk
    /\ now = 0
    /\ pass = [i \in PassIds |-> IdlePass]
    /\ ret = NoRet
    /\ search_history = <<>>
    /\ inv = IdleInv
    /\ sem = IdleSem
    /\ registry = EmptyRegistry
    /\ walk = IdleWalk
    /\ manager = NoManager

SpecManager == InitManager /\ [][NextManager]_vars

-----------------------------------------------------------------------------
(* Claims about the synchronisation pass *)

\* C1: when a pass reset -> touch(p1..pn) -> sweep has run to its end, the
\* store holds a record for exactly the paths touch_file was called for and
\* did not skip, one record each; so a path that had a record before the pass
\* and was not touched has none.
C1_MarkAndSweepExact ==
    pass[1].pc = "done" =>
        /\ StoredPaths(files) = pass[1].touched
        /\ \A p \in pass[1].touched : Cardinality(SelectByPath(files, p)) = 1
        /\ \A p \in pass[1].before \ pass[1].called : SelectByPath(files, p) = {}

\* C1 witness: a finished pass that touched a path, skipped another that had
\* a record, and swept the record of a path it never touched
C1_Witness ==
    /\ pass[1].pc = "done"
    /\ pass[1].touched # {}
    /\ (pass[1].called \ pass[1].touched) \cap pass[1].before # {}
    /\ pass[1].before \ pass[1].called # {}

\* C2: two update_index passes on one store never interleave: they are never
\* both between their reset_seen_flags and their delete_missing_files, and no
\* sweep deletes a record that its own pass, or the other pass while in
\* progress, has touched.
C2_PassesNeverInterleave ==
    /\ ~(Active(pass[1]) /\ Active(pass[2]))
    /\ ret.op = "delete_missing_files" =>
          \A r \in ret.removed :
              /\ r.absolute_path \notin pass[ret.pass].touched
              /\ \A j \in PassIds :
                    Active(pass[j]) => r.absolute_path \notin pass[j].touched

\* the harm C2 speaks of, alone: a sweep deletes a record its own pass touched
C2_SweepSparesOwnTouched ==
    ret.op = "delete_missing_files" =>
        \A r \in ret.removed : r.absolute_path \notin pass[ret.pass].touched

\* C3: a store failure in a touch_file call aborts the pass and reaches the
\* caller of update_index; that pass runs no delete_missing_files.
C3_StoreFailureAbortsPass ==
    \A i \in PassIds :
        pass[i].store_error =>
            /\ pass[i].pc = "raised"
            /\ "delete_missing_files" \notin Range(pass[i].log)

\* the harm C3 speaks of, alone: no pass in which a touch failed with a store
\* error deletes a record
C3_FailedPassDeletesNothing ==
    (ret.op = "delete_missing_files" /\ pass[ret.pass].store_error) => ret.removed = {}

\* C8: within one pass the store calls are one reset_seen_flags, then
\* touch_file calls, then one delete_missing_files that runs only when the
\* walk has gone through every file; nothing follows the sweep.
C8_PassOrder ==
    \A i \in PassIds :
        LET lg == pass[i].log
        IN  /\ lg # <<>> => lg[1] = "reset_seen_flags"
            /\ Count(lg, "reset_seen_flags") <= 1
            /\ \A k \in 1..Len(lg) :
                  lg[k] = "delete_missing_files" =>
                      /\ k = Len(lg)
                      /\ pass[i].idx > Len(WalkOrder)
            /\ \A k \in 2..Len(lg) :
                  k < Len(lg) => lg[k] = "touch_file"
            /\ pass[i].pc = "done" =>
                  /\ Count(lg, "reset_seen_flags") = 1
                  /\ Count(lg, "delete_missing_files") = 1
            /\ pass[i].pc \in {"stat", "touch"} =>
                  /\ Count(lg, "reset_seen_flags") = 1
                  /\ Count(lg, "delete_missing_files") = 0

\* C8 witness: a finished pass whose log is reset, touch, touch, sweep
C8_Witness ==
    /\ pass[1].pc = "done"
    /\ pass[1].log = <<"reset_seen_flags", "touch_file", "touch_file",
                       "delete_missing_files">>

-----------------------------------------------------------------------------
(* Claims about touch_file and delete_missing_files *)

\* the datetime touch_file computes from a stat result
ObservedModified(st) == FromTimestamp(st.st_mtime)

\* C4: for a path that can be stat'd, touch_file on a store with no record of
\* it returns True; a touch_file that follows a touch_file of the same path
\* which saw the same stat returns False and leaves the store as that call
\* left it.
C4_TouchIdempotent ==
    [][CallTouchFile(PA) =>
        LET st == OsStat(disk, PA)
        IN  st # NULL =>
              /\ SelectByPath(files, PA) = {} => ret'.result = TRUE
              /\ (ret.op = "touch_file" /\ ret.path = PA /\ ret.stat = st) =>
                    (ret'.result = FALSE /\ files' = files)]_vars

\* C4 witness: a second touch_file of PA in a row, the file's time holding
\* microseconds, reported unchanged
C4_Witness ==
    /\ ret.op = "touch_file"
    /\ ret.again
    /\ ret.stat = Some(S4)
    /\ ret.result = FALSE

\* C5: touch_file on an existing record whose stored size or stored
\* modified_at differs from the observed one returns True and leaves the
\* record with the observed size and modified_at and seen = 1.
C5_ChangeDetected ==
    [][CallTouchFile(PA) =>
        LET st == OsStat(disk, PA)
        IN  st # NULL =>
              \A row \in SelectByPath(files, PA) :
                  (st[1].st_size # row.size
                     \/ ObservedModified(st[1]) # FromIsoformat(row.modified_at)) =>
                      /\ ret'.result = TRUE
                      /\ SelectByPath(files', PA) # {}
                      /\ \A r \in SelectByPath(files', PA) :
                            /\ r.size = st[1].st_size
                            /\ FromIsoformat(r.modified_at) = ObservedModified(st[1])
                            /\ r.seen = 1]_vars

\* C5 witness: a touch_file that found a record of the same size and another
\* modification time, and reported a change
C5_Witness ==
    /\ ret.op = "touch_file"
    /\ ret.stat # NULL
    /\ ret.result = TRUE
    /\ \E row \in ret.old :
          /\ row.size = ret.stat[1].st_size
          /\ FromIsoformat(row.modified_at) # ObservedModified(ret.stat[1])

\* what touch_file returns for a new file and for an unchanged one
ReturnedWhenChanged ==
    TouchFile({}, 0, 0, InitDisk, FileData(PA, "file"), FALSE).result

ReturnedWhenUnchanged ==
    TouchFile({StoredRow(PA, 1, S1, 0)}, 1, 0, InitDisk, FileData(PA, "file"), FALSE).result

\* C6: a touch_file for a path that cannot be stat'd changes nothing in the
\* store, does not end the pass, and returns an outcome that differs from the
\* one for a changed file and from the one for an unchanged file.
C6_SkippedIsDistinct ==
    [][(Touch(1, FALSE) /\ OsStat(disk, pass[1].file_data[1].absolute_path) = NULL) =>
        /\ files' = files
        /\ seq' = seq
        /\ pass'[1].pc = "walk"
        /\ ret'.result \notin {ReturnedWhenChanged, ReturnedWhenUnchanged}]_vars

\* the part of C6 the code keeps: the store is untouched and the pass goes on
C6_SkipLeavesStore ==
    [][(Touch(1, FALSE) /\ OsStat(disk, pass[1].file_data[1].absolute_path) = NULL) =>
        /\ files' = files
        /\ seq' = seq
        /\ pass'[1].pc = "walk"]_vars

\* C7: touch_file on an existing record whose stored size and modified_at
\* equal the observed ones returns False and changes nothing but that
\* record's seen flag, which becomes 1.
C7_UnchangedTouchOnlyMarksSeen ==
    [][CallTouchFile(PA) =>
        LET st == OsStat(disk, PA)
        IN  st # NULL =>
              \A row \in SelectByPath(files, PA) :
                  (st[1].st_size = row.size
                     /\ ObservedModified(st[1]) = FromIsoformat(row.modified_at)) =>
                      /\ ret'.result = FALSE
                      /\ files' = (files \ {row}) \cup {[row EXCEPT !.seen = 1]}]_vars

\* C7 witness: an unchanged touch of a record that was unseen, carried an
\* embedding and was indexed at an earlier time, beside another unseen record
C7_Witness ==
    /\ ret.op = "touch_file"
    /\ ret.branch = "seen"
    /\ \E row \in ret.old :
          /\ row.seen = 0
          /\ row.embedding_id # NULL
          /\ row.last_indexed_at < now
    /\ \E r \in files : r.absolute_path # ret.path /\ r.seen = 0

\* C9: delete_missing_files removes exactly the records with seen = 0, keeps
\* every record with seen = 1 as it was, and returns the number it removed.
C9_SweepExact ==
    [][CallDeleteMissingFiles =>
        /\ files' = {r \in files : r.seen = 1}
        /\ ret'.count = Cardinality({r \in files : r.seen = 0})
        /\ ret'.count = Cardinality(files) - Cardinality(files')]_vars

\* C9 witness: a sweep that removed one record and kept another
C9_Witness ==
    /\ ret.op = "delete_missing_files"
    /\ ret.pass = 0
    /\ ret.count = 1
    /\ Cardinality(ret.removed) = 1
    /\ \E r \in files : r.seen = 1 /\ r.embedding_id # NULL

-----------------------------------------------------------------------------
(* Claims about get_files_by_criteria *)

\* text p begins with text d
StartsWith(p, d) == Len(d) <= Len(p) /\ SubSeq(p, 1, Len(d)) = d

\* the predicates a query supplies, as the specification words them: the path
\* begins with the directory and a separator, the extension is one of the
\* given ones, the type is the given one, and size and modification time lie
\* within the inclusive bounds
Satisfies(r, c) ==
    /\ c.directory # NULL => StartsWith(r.absolute_path, c.directory \o <<"/">>)
    /\ c.extensions # NULL => r.extension \in Range(c.extensions)
    /\ c.file_type # NULL => r.type = c.file_type[1]
    /\ c.min_size # NULL => r.size >= c.min_size[1]
    /\ c.max_size # NULL => r.size <= c.max_size[1]
    /\ c.modified_after # NULL => FromIsoformat(r.modified_at) >= c.modified_after[1]
    /\ c.modified_before # NULL => FromIsoformat(r.modified_at) <= c.modified_before[1]

\* C10: get_files_by_criteria returns exactly the records that satisfy every
\* predicate supplied; an omitted predicate constrains nothing.
C10_QueryExact ==
    ret.op = "get_files_by_criteria" =>
        ret.rows = {r \in files : Satisfies(r, ret.criteria[1])}

\* C10 without a directory argument: the other predicates are exact
C10_QueryExactNoDirectory ==
    (ret.op = "get_files_by_criteria" /\ ret.criteria[1].directory = NULL) =>
        ret.rows = {r \in files : Satisfies(r, ret.criteria[1])}

\* C10's example: with .py, .js and .txt files stored, extensions = {.py, .js}
\* alone returns exactly the .py and the .js record
C10_ExampleHolds ==
    (/\ ret.op = "get_files_by_criteria"
     /\ ret.criteria[1] = [directory |-> NULL, extensions |-> <<DotPy, DotJs>>,
                           file_type |-> NULL, min_size |-> NULL, max_size |-> NULL,
                           modified_after |-> NULL, modified_before |-> NULL]
     /\ {PA, PB, PC} \subseteq StoredPaths(files)) =>
        {r.absolute_path : r \in ret.rows} = {PA, PB}

\* C11: get_files_by_criteria(directory = d) returns only records whose
\* absolute_path starts, character for character, with d followed by the path
\* separator; a path that only matches d under LIKE's wildcards, or that
\* differs from d in letter case, is not returned.
C11_DirectoryPrefixOnly ==
    (ret.op = "get_files_by_criteria" /\ ret.criteria[1].directory # NULL) =>
        \A r \in ret.rows :
            StartsWith(r.absolute_path, ret.criteria[1].directory \o <<"/">>)

-----------------------------------------------------------------------------
(* Claims about multi_search *)

\* the invocation has left multi_search
Left == inv.pc \in {"returned", "raised"}

\* the arguments of the invocation
Args == inv.args[1]

\* the language-model collaborator was reached
LlmCalled == "search_files" \in Range(inv.calls)

\* a record lies within the size bounds of the filter criteria
WithinBounds(r, f) ==
    /\ f.min_size # NULL => r.size >= f.min_size[1]
    /\ f.max_size # NULL => r.size <= f.max_size[1]

\* C12: a multi_search call that supplies filter criteria completes and
\* returns results, and no record whose size lies outside the supplied bounds
\* is in the candidate set or in the result.
C12_FilterCriteriaApplied ==
    (Left /\ Args.filter_criteria # NULL) =>
        /\ inv.pc = "returned"
        /\ \A r \in Range(inv.base_results) \cup Range(inv.result) :
              WithinBounds(r, Args.filter_criteria[1])

\* C13: when the structural filter yields no candidate, multi_search returns
\* an empty result and no call reaches the embedding or the language-model
\* collaborator in that invocation.
C13_EmptyFilterShortCircuits ==
    (inv.pc # "idle" /\ inv.error # "TypeError" /\ inv.base_results = <<>>) =>
        /\ inv.pc = "returned"
        /\ inv.result = <<>>
        /\ inv.calls = <<>>

\* C13 witness: a search with both stages enabled whose extension matches no
\* record has returned
C13_Witness ==
    /\ inv.pc = "returned"
    /\ Args.use_semantic /\ Args.use_llm
    /\ Args.extensions = <<DotMd>>
    /\ inv.base_results = <<>>
    /\ inv.result = <<>>

\* the structural filter's output as a set: the records get_files_by_criteria
\* selects for the directory and the extensions of the search
Selected(a) ==
    GetFilesByCriteria(files,
        [directory |-> a.directory, extensions |-> a.extensions,
         file_type |-> Some("file"), min_size |-> NULL, max_size |-> NULL,
         modified_after |-> NULL, modified_before |-> NULL], FALSE)

\* a sequence of records in ascending id order
Ascending(records) ==
    \A j, k \in 1..Len(records) : j < k => records[j].id < records[k].id

\* C14: with use_semantic and use_llm both false, multi_search returns the
\* first top_k records of the structural filter's output in id order and
\* nothing else; with a.py (1), b.txt (2), c.py (3) under the directory,
\* extensions [".py"] and top_k = 10 the result is [a.py, c.py].
C14_StructuralOnly ==
    (inv.pc = "returned" /\ ~Args.use_semantic /\ ~Args.use_llm) =>
        /\ Ascending(inv.result)
        /\ Len(inv.result) = Min(Args.top_k, Cardinality(Selected(Args)))
        /\ \A r \in Range(inv.result) : r \in Selected(Args)
        /\ \A r \in Selected(Args) :
              r \notin Range(inv.result) =>
                  \A q \in Range(inv.result) : q.id < r.id
        /\ inv.calls = <<>>
        /\ (Args.directory = DirP /\ Args.extensions = <<DotPy>>
            /\ Args.top_k = DefaultTopK) =>
              [k \in 1..Len(inv.result) |-> inv.result[k].absolute_path] = <<PP1, PP3>>

\* C14 witness: the example's search has returned a.py and c.py
C14_Witness ==
    /\ inv.pc = "returned"
    /\ ~Args.use_semantic /\ ~Args.use_llm
    /\ Args.directory = DirP /\ Args.extensions = <<DotPy>>
    /\ Args.top_k = DefaultTopK
    /\ Len(inv.result) = 2

\* the records of l whose id occurs neither in seen nor earlier in l, in l's
\* order
RECURSIVE NewById(_, _)
NewById(l, seen) ==
    IF l = <<>> THEN <<>>
    ELSE IF Head(l).id \in seen THEN NewById(Tail(l), seen)
    ELSE <<Head(l)>> \o NewById(Tail(l), seen \cup {Head(l).id})

\* S followed by the records of L whose id does not occur in S, each once
FullMerge == inv.semantic_results \o NewById(inv.llm_results, Ids(inv.semantic_results))

\* no two records of a sequence have the same id
DistinctIds(records) ==
    \A j, k \in 1..Len(records) : j # k => records[j].id # records[k].id

Max(a, b) == IF a >= b THEN a ELSE b

\* the ids of a sequence of records
IdSeq(records) == [k \in 1..Len(records) |-> records[k].id]

\* C15 as stated: the sequence multi_search has built before it truncates is
\* S followed by those records of L whose id does not occur in S, each once in
\* L's order, and holds no two records with the same id.
C15_MergeIsFullUnion ==
    (inv.pc = "returned" /\ (Args.use_semantic \/ Args.use_llm)
     /\ inv.base_results # <<>>) =>
        /\ inv.merged = FullMerge
        /\ DistinctIds(inv.merged)

\* C15 amended: the sequence multi_search has built before it truncates is S
\* followed by the first records of U, the records of L whose id does not
\* occur in S, each once in L's order: all of U, unless an appended record
\* brings the sequence to top_k records or more, where appending stops.  It
\* holds no two records with the same id, and its first top_k records are the
\* first top_k of S followed by U.
C15_MergeUpToTopK ==
    (inv.pc = "returned" /\ (Args.use_semantic \/ Args.use_llm)
     /\ inv.base_results # <<>>) =>
        LET S == inv.semantic_results
            U == NewById(inv.llm_results, Ids(S))
            n == IF U = <<>> THEN Len(S)
                 ELSE Min(Len(S) + Len(U), Max(Args.top_k, Len(S) + 1))
        IN  /\ inv.merged = Take(S \o U, n)
            /\ DistinctIds(inv.merged)
            /\ Take(inv.merged, Args.top_k) = Take(S \o U, Args.top_k)
            /\ (IdSeq(S) = <<4, 2>> /\ IdSeq(inv.llm_results) = <<2, 3, 1>>
                /\ Args.top_k = DefaultTopK) => IdSeq(inv.merged) = <<4, 2, 3, 1>>

\* C15 witness: semantic results [A, B] and LLM results [B, C, D] have been
\* merged into [A, B, C, D]
C15_Witness ==
    /\ inv.pc = "returned"
    /\ IdSeq(inv.semantic_results) = <<4, 2>>
    /\ IdSeq(inv.llm_results) = <<2, 3, 1>>
    /\ IdSeq(inv.merged) = <<4, 2, 3, 1>>

\* C16: the list multi_search returns has at most top_k records and is a
\* prefix of the merged sequence, and the 'multi' history entry recorded for
\* the invocation holds the same records as the returned list.
C16_TruncatedAndRecorded ==
    (inv.pc = "returned" /\ inv.base_results # <<>>) =>
        /\ Len(inv.result) <= Args.top_k
        /\ inv.result = Take(inv.merged, Len(inv.result))
        /\ search_history # <<>>
        /\ search_history[Len(search_history)].search_type = "multi"
        /\ search_history[Len(search_history)].results = inv.result

\* the part of C16 about the returned list alone
C16_ReturnedIsCapped ==
    (inv.pc = "returned" /\ inv.base_results # <<>>) =>
        /\ Len(inv.result) <= Args.top_k
        /\ inv.result = Take(inv.merged, Len(inv.result))

\* C17: with both stages enabled, the names handed to the language model are
\* exactly the names of the structural filter's candidates, in their order,
\* whatever the semantic stage returned, and every record of the LLM stage's
\* output is one of those candidates.
C17_LlmSeesBaseNames ==
    (LlmCalled /\ Args.use_semantic /\ Args.use_llm) =>
        LET base == QueryFiles(files, Args.directory, Args.extensions, FALSE)
        IN  /\ inv.file_names = [k \in 1..Len(base) |-> base[k].name]
            /\ \A r \in Range(inv.llm_results) : r \in Range(base)

\* C17 witness: the semantic stage returned one of several candidates, and
\* the language model was handed the names of them all and chose another
C17_Witness ==
    /\ inv.pc = "returned"
    /\ Args.use_semantic /\ Args.use_llm
    /\ Len(inv.semantic_results) = 1
    /\ Len(inv.file_names) = 4
    /\ inv.llm_results # <<>>
    /\ \A r \in Range(inv.llm_results) : r \notin Range(inv.semantic_results)

\* the positions of the candidates named name
NamedAt(name) == {k \in 1..Len(inv.base_results) : inv.base_results[k].name = name}

\* C18: every record search_llm returns is one of its candidates: for each
\* name the language model returns, the result holds the first candidate (in
\* candidate order) whose name equals it, and a name that equals no
\* candidate's name contributes nothing.
C18_LlmMatchesFirstByName ==
    LlmCalled =>
        LET known == SelectSeq(inv.matching_names, LAMBDA n : NamedAt(n) # {})
        IN  /\ Len(inv.llm_results) = Len(known)
            /\ \A k \in 1..Len(known) :
                  /\ inv.llm_results[k] \in Range(inv.base_results)
                  /\ inv.llm_results[k].name = known[k]
                  /\ \E j \in NamedAt(known[k]) :
                        /\ inv.llm_results[k] = inv.base_results[j]
                        /\ \A i \in NamedAt(known[k]) : j <= i

\* C18 witness: two candidates are named a.py; the language model returned
\* a.py and a name of no candidate, and the result is the first a.py alone
C18_Witness ==
    /\ LlmCalled
    /\ Cardinality(NamedAt(Basename(PP1))) = 2
    /\ inv.matching_names = <<<<"z">>, Basename(PP1)>>
    /\ IdSeq(inv.llm_results) = <<1>>

\* C19: if the language-model API raises during the LLM stage, multi_search
\* does not raise: the LLM stage contributes nothing and multi_search returns
\* the semantic stage's results, capped to top_k.
C19_LlmFailureDegrades ==
    (inv.pc # "idle" /\ "complete" \in inv.failed) =>
        /\ inv.pc = "returned"
        /\ inv.error = "none"
        /\ inv.llm_results = <<>>
        /\ inv.result = Take(inv.semantic_results, Args.top_k)

\* C19 witness: the API raised after the semantic stage found two records,
\* and multi_search returned those two
C19_Witness ==
    /\ inv.pc = "returned"
    /\ "complete" \in inv.failed
    /\ Len(inv.semantic_results) = 2
    /\ inv.result = inv.semantic_results

\* C20: if the embedding collaborator fails during the semantic stage (the
\* query embedding or a file embedding), multi_search does not raise: the
\* LLM stage still runs when enabled and multi_search returns its results.
C20_EmbeddingFailureDegrades ==
    (inv.pc # "idle" /\ inv.failed \cap {"embed_query", "embed_file"} # {}) =>
        /\ inv.pc # "raised"
        /\ (inv.pc = "returned" /\ Args.use_llm) => LlmCalled

\* the part of C20 about file embeddings: a failed embed_file alone never
\* makes multi_search raise
C20_FileEmbeddingFailureDegrades ==
    (inv.pc # "idle" /\ inv.failed \cap {"embed_query", "embed_file"} = {"embed_file"}
     /\ Args.top_k > 0) =>
        /\ inv.pc # "raised"
        /\ (inv.pc = "returned" /\ Args.use_llm) => LlmCalled

\* C21: when the store query of multi_search's structural filter fails, the
\* failure reaches the caller of multi_search as an error and the invocation
\* is aborted; it is never reported as an ordinary empty result.
C21_StoreFailurePropagates ==
    (inv.pc # "idle" /\ "get_files_by_criteria" \in inv.failed) =>
        /\ inv.pc = "raised"
        /\ inv.calls = <<>>

\* how many entries of a search type the history holds
StageEntries(search_type) ==
    Cardinality({k \in 1..Len(search_history) :
                    search_history[k].search_type = search_type})

\* the stage ran in the invocation that has returned
SemanticRan == Args.use_semantic /\ inv.base_results # <<>>

LlmRan == Args.use_llm /\ inv.base_results # <<>>

\* C22: every stage invocation (structural filter, semantic search, LLM
\* filter) appends exactly one entry to search_history, whatever it returned,
\* early returns included; after one multi_search the history holds one entry
\* per stage that ran, besides the entry of multi_search itself.
C22_OneEntryPerStage ==
    inv.pc = "returned" =>
        /\ StageEntries("semantic") = (IF SemanticRan THEN 1 ELSE 0)
        /\ StageEntries("llm") = (IF LlmRan THEN 1 ELSE 0)
        /\ Len(search_history) - StageEntries("multi")
              = 1 + StageEntries("semantic") + StageEntries("llm")

\* the part of C22 about the LLM stage inside multi_search, where the
\* candidate set is never empty
C22_LlmStageRecorded ==
    inv.pc = "returned" => StageEntries("llm") = (IF LlmRan THEN 1 ELSE 0)

-----------------------------------------------------------------------------
(* Claims about search_semantic *)

SemArgs == sem.args[1]

SemEmb == sem.emb[1]

\* the strategy a finished call used, read off the collaborator calls: only
\* the post-filter strategy reaches search_similar
PostFiltered == "search_similar" \in Range(sem.calls)

\* the call got past embed_query
Branched == sem.pc # "idle" /\ ~SemEmb.query_raises

\* C23: search_semantic picks its strategy by the size of the candidate set
\* alone: no candidates, or ScopedThreshold and more, use the post-filter
\* strategy; 1 to ScopedThreshold - 1 candidates use the scoped index.
C23_StrategyBySize ==
    Branched =>
        (PostFiltered <=> (SemArgs.size = 0 \/ SemArgs.size >= ScopedThreshold))

\* a call with exactly ScopedThreshold candidates has post-filtered
C23_Witness ==
    /\ sem.pc = "returned"
    /\ SemArgs.size = ScopedThreshold
    /\ PostFiltered

\* a call with one candidate fewer has used the scoped index
C23_WitnessBelow ==
    /\ sem.pc = "returned"
    /\ SemArgs.size = ScopedThreshold - 1
    /\ ~PostFiltered
    /\ sem.results # <<>>

\* the neighbours search_similar is asked for: the best top_k * Oversample
\* of the full index
Asked == Take(SemEmb.hits, SemArgs.top_k * Oversample)

\* the ids of the candidate set of the call: of previous_results, or of the
\* structural query when the caller gave none
CandidateIds ==
    IF SemArgs.size = 0
    THEN Ids(QueryFiles(files, SemArgs.directory, SemArgs.extensions, FALSE))
    ELSE Range(SemArgs.listed)
         \cup {Cardinality(SearchStore) + k : k \in (Len(SemArgs.listed) + 1)..SemArgs.size}

\* the positions of Asked whose hit is the id of a candidate the store holds
Eligible ==
    {p \in 1..Len(Asked) :
        Asked[p] \in CandidateIds /\ \E r \in files : r.id = Asked[p]}

\* the j-th eligible position
NthEligible(j) ==
    CHOOSE p \in Eligible : Cardinality({q \in Eligible : q < p}) = j - 1

\* C24: the post-filter strategy asks the full index once, for
\* top_k * Oversample neighbours, and returns the first top_k of those hits,
\* in the index's order, that are ids of candidates; when fewer than top_k
\* of them are, it returns those and does not ask again.
C24_PostFilterFirstK ==
    (sem.pc = "returned" /\ PostFiltered) =>
        /\ Count(sem.calls, "search_similar") = 1
        /\ Len(sem.results) = Min(SemArgs.top_k, Cardinality(Eligible))
        /\ \A j \in 1..Len(sem.results) :
              /\ sem.results[j] \in files
              /\ sem.results[j].id = Asked[NthEligible(j)]
              /\ sem.results[j].id \in CandidateIds

\* a candidate ranked behind the oversampled hits is not reached: fewer than
\* top_k records are returned
C24_Witness ==
    /\ sem.pc = "returned"
    /\ PostFiltered
    /\ SemArgs.top_k = 1
    /\ SemEmb.hits = Strangers \o <<1>>
    /\ 1 \in CandidateIds
    /\ sem.results = <<>>

\* a hit outside the candidate set is passed over and top_k records are
\* returned
C24_WitnessSkip ==
    /\ sem.pc = "returned"
    /\ PostFiltered
    /\ Len(sem.results) = SemArgs.top_k
    /\ \E p \in 1..Len(Asked) :
          /\ p \notin Eligible
          /\ p < NthEligible(Len(sem.results))

\* C25: the scoped-index strategy ranks the whole candidate set: for a
\* candidate set below the threshold it returns min(top_k, size of the set)
\* records, all of the set, candidates without embedding_id included.
C25_ScopedRanksAll ==
    (sem.pc = "returned" /\ Branched /\ ~PostFiltered) =>
        /\ Len(sem.results) = Min(SemArgs.top_k, SemArgs.size)
        /\ \A j \in 1..Len(sem.results) : sem.results[j].id \in CandidateIds

\* the similarity of a record to the query, from the value the index
\* computes: the nearer, the larger
Similarity(id) ==
    IF SemEmb.metric = "l2" THEN 0 - SemEmb.distance[id] ELSE SemEmb.distance[id]

\* C26: under both strategies and every supported metric the returned
\* records are in order of descending similarity, records of equal
\* similarity in order of ascending record id.
C26_SimilarityThenId ==
    (sem.pc = "returned" /\ Branched) =>
        \A x, y \in 1..Len(sem.results) :
            x < y =>
                \/ Similarity(sem.results[x].id) > Similarity(sem.results[y].id)
                \/ /\ Similarity(sem.results[x].id) = Similarity(sem.results[y].id)
                   /\ sem.results[x].id < sem.results[y].id

\* the part of C26 about similarity alone
C26_DescendingSimilarity ==
    (sem.pc = "returned" /\ Branched) =>
        \A x, y \in 1..Len(sem.results) :
            x < y => Similarity(sem.results[x].id) >= Similarity(sem.results[y].id)

-----------------------------------------------------------------------------
(* Claims about embedding columns and record ids *)

\* every row with an embedding_id has an embedding_type
EmbeddingPaired ==
    \A r \in files : r.embedding_id # NULL => r.embedding_type # NULL

\* a row's embedding columns after a step are those it had before, unless
\* the step is a successful update_embedding_id for the row
EmbeddingSetByUpdate ==
    \A r \in files' :
        r.embedding_id # NULL =>
            \/ \E q \in files : /\ q.id = r.id
                                /\ q.embedding_id = r.embedding_id
                                /\ q.embedding_type = r.embedding_type
            \/ /\ ret'.op = "update_embedding_id"
               /\ ret'.result
               /\ r.id \in {q.id : q \in ret'.old}

IdsBelowSeq == \A r \in files : r.id <= seq

\* a step keeps the path of every id that stays, gives a new row an id above
\* the high-water mark, and never lowers the mark
IdsKeepPath ==
    /\ \A r \in files, q \in files' :
          r.id = q.id => r.absolute_path = q.absolute_path
    /\ \A q \in files' : (\A r \in files : r.id # q.id) => q.id > seq
    /\ seq' >= seq

\* C28: a record id identifies at most one path over the whole history of
\* the store: an update of a row keeps its id, and a row inserted later gets
\* an id larger than every id handed out before, the swept ones included.
C28_IdNeverReused == []IdsBelowSeq /\ [][IdsKeepPath]_vars

\* touch_file has inserted a row after a row with a smaller id was swept
C28_Witness ==
    /\ ret.op = "touch_file"
    /\ ret.branch = "inserted"
    /\ \E k \in 1..seq : \A r \in files : r.id # k

-----------------------------------------------------------------------------
(* Claims about the embedder registry *)

RegLast == registry.last[1]

\* get_for_file was the last call
Resolved == registry.last # NULL /\ RegLast.op = "get_for_file"

\* the lower-cased extension of the path of the last call
AskedExt == Lower(SplitextExt(RegLast.file_path))

\* the register calls whose embedder supports the extension
Claimants(ext) ==
    {k \in 1..Len(registry.log) :
        ext \in registry.log[k].embedder.supported_extensions}

\* the embedder of the last register call that claimed the extension
LastClaimant(ext) ==
    registry.log[CHOOSE k \in Claimants(ext) :
                    \A j \in Claimants(ext) : j <= k].embedder

\* C29: an extension that registered embedders claim resolves to the
\* embedder that claimed it last: the most recently registered one when it
\* was claimed again, and the earlier embedder when no later registration
\* claimed it.
C29_LastClaimantWins ==
    (Resolved /\ Claimants(AskedExt) # {}) =>
        RegLast.result = Some(LastClaimant(AskedExt))

\* no two register calls used the same name
DistinctNames ==
    \A x, y \in 1..Len(registry.log) :
        x # y => registry.log[x].name # registry.log[y].name

\* the statement of C29 for registrations under different names
C29_LastClaimantWinsDistinctNames ==
    (Resolved /\ Claimants(AskedExt) # {} /\ DistinctNames) =>
        RegLast.result = Some(LastClaimant(AskedExt))

\* the extension of the last call has a mapping
Mapped == \E m \in registry.extension_map : m.ext = AskedExt

\* the positions of the registry whose embedder accepts the path
Accepting ==
    {k \in 1..Len(registry.embedders) :
        CanEmbed(registry.embedders[k].embedder, RegLast.file_path)}

C30_WitnessMapped ==
    /\ Resolved
    /\ Mapped
    /\ \E k \in Accepting :
          /\ registry.embedders[k].embedder.overrides
          /\ RegLast.result # Some(registry.embedders[k].embedder)

-----------------------------------------------------------------------------
(* Claims about embeddings of changed files *)

\* the step is a touch_file that found the file changed and updated its row
TouchUpdated == ret'.op = "touch_file" /\ ret'.branch = "updated"

\* C38: a touch_file that reports a change for an existing record leaves the
\* record's embedding_id and embedding_type as they were: the record keeps
\* the embedding of the old content.
C38_ChangeKeepsEmbedding ==
    [][TouchUpdated =>
          \A q \in ret'.old :
              \E r \in files' : /\ r.id = q.id
                                /\ r.embedding_id = q.embedding_id
                                /\ r.embedding_type = q.embedding_type
                                /\ <<r.size, r.modified_at>> # <<q.size, q.modified_at>>]_vars

\* the row of a changed file carried an embedding into the update
C38_Witness ==
    /\ ret.op = "touch_file"
    /\ ret.branch = "updated"
    /\ ret.result
    /\ \E q \in ret.old : q.embedding_id # NULL
    /\ \E r \in files : r.embedding_id # NULL

-----------------------------------------------------------------------------
(* Claims about what a query sees during a pass *)

\* the pass is between its reset and its sweep
MidPass == pass[1].pc \in {"walk", "stat", "touch"}

\* C39: during a single pass a record that existed before the pass stays in
\* the store until the sweep, whatever the pass has touched so far, and the
\* sweep removes only rows still unseen; a record that existed before the
\* pass and whose path the pass touched is in the store in every state of
\* the pass and after it.
C39_TouchedStaysVisible ==
    /\ MidPass => pass[1].before \subseteq StoredPaths(files)
    /\ pass[1].pc = "done" =>
          /\ (pass[1].before \cap pass[1].touched) \subseteq StoredPaths(files)
          /\ ret.op = "delete_missing_files" =>
                /\ \A r \in ret.removed : r.seen = 0
                /\ \A r \in ret.removed : r.absolute_path \notin pass[1].touched

\* mid-pass, one earlier record has been touched and another is still unseen
C39_Witness ==
    /\ MidPass
    /\ pass[1].before \cap pass[1].touched # {}
    /\ \E r \in files : r.seen = 0 /\ r.absolute_path \in pass[1].before

\* the sweep has removed an unseen record and kept a touched one
C39_WitnessSwept ==
    /\ pass[1].pc = "done"
    /\ ret.op = "delete_missing_files"
    /\ ret.removed # {}
    /\ pass[1].before \cap pass[1].touched # {}

-----------------------------------------------------------------------------
(* Claims about the reach of a pass *)

\* C37: after update_index(start_path) has completed every record of the
\* store has an absolute_path under start_path; records of another root,
\* which the walk does not reach, are swept although their files exist.
C37_OnlyStartPathRemains ==
    pass[1].pc = "done" =>
        \A r \in files : UnderStartPath(r.absolute_path)

\* the sweep has deleted the record of a file that exists outside start_path
C37_Witness ==
    /\ pass[1].pc = "done"
    /\ ret.op = "delete_missing_files"
    /\ \E r \in ret.removed :
          /\ ~UnderStartPath(r.absolute_path)
          /\ disk[r.absolute_path] # NULL

-----------------------------------------------------------------------------
(* Claims about the index command *)

\* C33: index --cleanup removes only the records of files missing from
\* disk: every record whose path exists on disk is still in the store
\* afterwards.
C33_CleanupKeepsLiveFiles ==
    [][ret'.op = "index_cleanup" =>
          \A r \in files :
              disk[r.absolute_path] # NULL =>
                  \E q \in files' : /\ q.id = r.id
                                    /\ q.absolute_path = r.absolute_path]_vars

-----------------------------------------------------------------------------
(* Claims about ignore patterns *)

\* the names a text holds between its separators
RECURSIVE SplitNames(_)
SplitNames(t) ==
    IF "/" \notin Range(t) THEN <<t>>
    ELSE LET k == CHOOSE i \in 1..Len(t) :
                      t[i] = "/" /\ \A j \in 1..(i - 1) : t[j] # "/"
         IN  <<SubSeq(t, 1, k - 1)>> \o SplitNames(SubSeq(t, k + 1, Len(t)))

\* p lies under the directory
LiesUnder(p, directory) == StartsWith(p, directory \o <<"/">>)

\* the names of the directories between start_path and the file, and the
\* file's own name
NamesBelow(p, start_path) == SplitNames(SubSeq(p, Len(start_path) + 2, Len(p)))

\* the file's own name or the name of a directory above it, below
\* start_path, matches an ignore pattern
Ignored(p, start_path, ignore_patterns) ==
    \E k \in 1..Len(NamesBelow(p, start_path)) :
        ShouldIgnore(NamesBelow(p, start_path)[k], ignore_patterns)

\* C32: after update_index(start_path, ignore_patterns) the store has a
\* record for every file under start_path whose name matches no pattern and
\* that lies under no directory (below start_path) whose name matches one,
\* and no record for a file that is ignored or lies under an ignored
\* directory; with no patterns, files in dot-directories are indexed.
C32_IgnorePatternsRespected ==
    [][(disk' = disk /\ ret'.op = "update_index") =>
          \A p \in Present(disk) :
              LiesUnder(p, walk'.start_path) =>
                  (p \in StoredPaths(files')
                     <=> ~Ignored(p, walk'.start_path, walk'.ignore_patterns))]_vars

\* with the default pattern the file in the dot-directory and the dot-file
\* are on disk and not in the store, the other file is
C32_Witness ==
    /\ walk.ran
    /\ walk.start_path = <<"/", "t">>
    /\ walk.ignore_patterns = {DotNames}
    /\ ret.op = "update_index"
    /\ Present(disk) = TreePaths
    /\ StoredPaths(files) = {T1}

\* with no pattern the file in the dot-directory is in the store
C32_WitnessDotDirectory ==
    /\ walk.ran
    /\ walk.ignore_patterns = {}
    /\ ret.op = "update_index"
    /\ T2 \in StoredPaths(files)

-----------------------------------------------------------------------------
(* Claims about EmbedManager *)

\* the metric argument names none of the three supported metrics
UnsupportedMetric(a) == Lower(a.metric) \notin {MetricL2, MetricIp, MetricCosine}

\* a vector of the call has another dimension than the index
WrongDimension(index, a) ==
    \E i \in 1..Len(a.embeddings) : Len(a.embeddings[i]) # index.d

\* C31: constructing an EmbedManager with an unsupported metric, adding
\* embeddings whose dimension differs from the index dimension, and searching
\* with a query of the wrong dimension all raise, and a call that raises
\* leaves the index, and so total_embeddings, as it was.
C31_ContractViolationsFailFast ==
    [][manager' # manager =>
          /\ (manager'.op = "init" /\ UnsupportedMetric(manager'.args))
                 => manager'.raised
          /\ (manager'.op \in {"add_embeddings", "search"}
                 /\ WrongDimension(manager.index, manager'.args))
                 => manager'.raised
          /\ (manager'.op \in {"init", "add_embeddings", "search"}
                 /\ manager'.raised)
                 => /\ manager'.index = manager.index
                    /\ manager'.built = manager.built
                    /\ TotalEmbeddings(manager') = TotalEmbeddings(manager)]_vars

\* add_embeddings was refused for a vector of the wrong dimension on an
\* index that holds a vector
C31_Witness ==
    /\ manager.op = "add_embeddings"
    /\ manager.raised
    /\ WrongDimension(manager.index, manager.args)
    /\ TotalEmbeddings(manager) = 1

\* search was refused for a query of the wrong dimension
C31_WitnessSearch ==
    /\ manager.op = "search"
    /\ manager.raised
    /\ WrongDimension(manager.index, manager.args)
    /\ TotalEmbeddings(manager) = 1

\* the constructor refused a metric while a manager with a vector exists
C31_WitnessMetric ==
    /\ manager.op = "init"
    /\ manager.raised
    /\ UnsupportedMetric(manager.args)
    /\ TotalEmbeddings(manager) = 1

\* the last call was add_embeddings and it returned
Added == manager.op = "add_embeddings" /\ ~manager.raised

\* the vector the index keeps for an embedding the manager was given
Kept(v) == IF manager.metric = MetricCosine THEN Normalise(v) ELSE v

\* the manager was constructed with the dimension and the metric the file
\* was written with, and holds nothing yet
FreshAndAlike(m) ==
    /\ m.built
    /\ m.index.xb = <<>>
    /\ m.saved # NULL
    /\ m.index.d = m.saved[1].d
    /\ m.index.kind = m.saved[1].kind

\* C34: add_embeddings of n embeddings raises total_embeddings by n and the
\* i-th of them gets handle previous count + i - 1; the file save_index
\* writes reads back with the number of embeddings the index had, and
\* load_index into a fresh manager of the same dimension and metric leaves
\* it with the number of embeddings of the file.
C34_HandlesInOrderAndRoundTrip ==
    /\ [](Added =>
            /\ TotalEmbeddings(manager) = manager.before + Len(manager.args.embeddings)
            /\ \A i \in 1..Len(manager.args.embeddings) :
                   manager.index.xb[manager.before + i] = Kept(manager.args.embeddings[i]))
    /\ [][manager' # manager =>
            /\ (manager'.op = "save_index" /\ ~manager'.raised) =>
                   /\ manager'.saved # NULL
                   /\ Len(ReadIndex(manager'.saved[1]).xb) = TotalEmbeddings(manager)
                   /\ ReadIndex(manager'.saved[1]) = manager.index
            /\ (manager'.op = "load_index" /\ ~manager'.raised /\ FreshAndAlike(manager)) =>
                   TotalEmbeddings(manager') = manager.saved[1].ntotal]_vars

\* one embedding was added to an index that held one with another value
C34_Witness ==
    /\ Added
    /\ manager.before = 1
    /\ TotalEmbeddings(manager) = 2
    /\ manager.index.xb[1] # manager.index.xb[2]

\* a fresh manager loaded a file with two embeddings
C34_WitnessLoaded ==
    /\ manager.op = "load_index"
    /\ ~manager.raised
    /\ manager.before = 0
    /\ TotalEmbeddings(manager) = 2

-----------------------------------------------------------------------------
(* Claims about embedding handles in the post-filter strategy *)

\* the hits asked for that are the handle of a candidate's embedding
HandleHits ==
    SelectSeq(Asked, LAMBDA h :
        \E r \in files : r.embedding_id = Some(h) /\ r.id \in CandidateIds)

\* the record whose embedding the handle names
ByHandle(h) == CHOOSE r \in files : r.embedding_id = Some(h)

\* C35: in the post-filter strategy every hit of the vector index is mapped
\* to the record whose embedding_id is the hit's handle: the results are the
\* candidates the first top_k such hits name, and no record is selected
\* because its record id equals a handle.
C35_HitsMappedByHandle ==
    (sem.pc = "returned" /\ PostFiltered) =>
        /\ Len(sem.results) = Min(SemArgs.top_k, Len(HandleHits))
        /\ \A j \in 1..Len(sem.results) : sem.results[j] = ByHandle(HandleHits[j])

-----------------------------------------------------------------------------
(* Claims about previous_results *)

\* C36: when a caller passes previous_results to filter_by_extension,
\* search_llm or search_semantic, every record of the stage's output is a
\* member of previous_results; an empty previous_results gives an empty
\* output.
C36_OutputWithinPreviousResults ==
    (sem.pc = "returned" /\ sem.args[1].passed) =>
        Range(sem.results) \subseteq Range(sem.args[1].previous_results)

====
